---- MODULE Spec2Model ----
(***************************************************************************)
(* Model of the FerrideCore orchestration loop: the Game event manager     *)
(* (src/src/game/mod.rs), the application layer that dispatches the event  *)
(* queue (src/src/manager_application/mod.rs) and the parts of the         *)
(* renderer, camera and velocity controller the orchestrator calls into.   *)
(*                                                                         *)
(* Scenes and entities are records; the `id` field of a scene or entity is *)
(* the identity of the Rust object (it survives moves between the scene    *)
(* lists), every other field is a field of the Rust struct or the value    *)
(* the entity's trait method returns.  f32 values are fixed-point integers *)
(* in units of 1/Scale.                                                    *)
(***************************************************************************)
EXTENDS Integers, Sequences, FiniteSets, TLC

\* ---------------------------------------------------------------- bounds
\* Timer events waiting in the event queue at one time.
MaxQueuedTimers == 1
\* Events emitted by the host (entity updates, State::handle_event) waiting
\* in the event queue at one time.
MaxQueuedHost == 1

\* Fixed-point scale of the f32 values (1.0 == Scale).
Scale == 10

\* ------------------------------------------------------- Option and Vec
None == <<>>
Some(x) == <<x>>
IsSome(o) == o # <<>>
Unwrap(o) == o[1]

Range(s) == {s[i] : i \in 1..Len(s)}
Contains(s, x) == \E i \in 1..Len(s) : s[i] = x
RemoveAt(s, i) == SubSeq(s, 1, i - 1) \o SubSeq(s, i + 1, Len(s))
Names(scenes) == {scenes[i].name : i \in 1..Len(scenes)}
Ids(scenes) == {scenes[i].id : i \in 1..Len(scenes)}

\* Iterator::position / find on the scene lists: index of the first scene
\* with the name (0 when there is none).
PositionByName(scenes, name) ==
    IF \E i \in 1..Len(scenes) : scenes[i].name = name
    THEN CHOOSE i \in 1..Len(scenes) :
            /\ scenes[i].name = name
            /\ \A j \in 1..(i - 1) : scenes[j].name # name
    ELSE 0

PositionByRenderScene(scenes, render_scene) ==
    IF \E i \in 1..Len(scenes) : scenes[i].render_scene = render_scene
    THEN CHOOSE i \in 1..Len(scenes) :
            /\ scenes[i].render_scene = render_scene
            /\ \A j \in 1..(i - 1) : scenes[j].render_scene # render_scene
    ELSE 0

\* slice::sort_by_key / sort_by: a stable sort, written as an insertion sort
\* (an element is inserted after the last element whose key is <= its own).
RECURSIVE InsertByKey(_, _, _)
InsertByKey(sorted, x, key) ==
    IF sorted = <<>> THEN <<x>>
    ELSE IF sorted[Len(sorted)][key] <= x[key]
         THEN Append(sorted, x)
         ELSE Append(InsertByKey(SubSeq(sorted, 1, Len(sorted) - 1), x, key),
                     sorted[Len(sorted)])

RECURSIVE StableSort(_, _)
StableSort(s, key) ==
    IF s = <<>> THEN <<>>
    ELSE InsertByKey(StableSort(SubSeq(s, 1, Len(s) - 1), key), s[Len(s)], key)

\* Variant: the list is left in insertion order (the sort call is missing).
SortByZIndexSkipped(scenes) == scenes

\* active_scenes.sort_by_key(|s| s.z_index)
SortByZIndex(scenes) == StableSort(scenes, "z_index")

\* Variant: the entities are left in the order in which they were added.
EntitiesUnsorted(entities) == entities

\* entities.sort_by(|a, b| a.z().partial_cmp(&b.z()))
SortEntitiesByZ(entities) == StableSort(entities, "z")

\* ------------------------------------------------------ f32 arithmetic
Abs(x) == IF x < 0 THEN -x ELSE x
Sign(x) == IF x < 0 THEN -1 ELSE IF x > 0 THEN 1 ELSE 0
\* a / b rounded to the nearest representable value (b > 0).
DivRound(a, b) == Sign(a) * ((2 * Abs(a) + b) \div (2 * b))
\* Product of two fixed-point values.
Mul(a, b) == DivRound(a * b, Scale)

RECURSIVE ISqrtBetween(_, _, _)
ISqrtBetween(n, lo, hi) ==
    IF lo >= hi THEN lo
    ELSE LET mid == (lo + hi + 1) \div 2
         IN  IF mid * mid <= n THEN ISqrtBetween(n, mid, hi)
             ELSE ISqrtBetween(n, lo, mid - 1)
\* Square root of a natural number, rounded down (the root of a 32-bit
\* number is at most 46340).
ISqrt(n) == ISqrtBetween(n, 0, IF n < 46340 THEN n ELSE 46340)

MagnitudeSquared(v) == v[1] * v[1] + v[2] * v[2]
\* Vector::magnitude: the fixed-point length of a fixed-point vector.
Magnitude(v) == ISqrt(MagnitudeSquared(v))

\* v.normalize() * length, or v * (1.0 / magnitude.sqrt()) with length 1.0:
\* the vector of that length in the direction of v (v is not zero).  The
\* root is taken at the resolution 1/Scale^2 and each coordinate of the
\* result is rounded to the nearest value.
Resized(v, length) ==
    <<DivRound(v[1] * length * Scale, ISqrt(MagnitudeSquared(v) * Scale * Scale)),
      DivRound(v[2] * length * Scale, ISqrt(MagnitudeSquared(v) * Scale * Scale))>>

\* f32::MANTISSA_DIGITS: an f32 holds 24 significant bits.
F32_MANTISSA_DIGITS == 24

RECURSIVE Pow2(_)
Pow2(n) == IF n = 0 THEN 1 ELSE 2 * Pow2(n - 1)

\* 2^24: an f32 holds every whole number below it.
F32_EXACT_BELOW == Pow2(F32_MANTISSA_DIGITS)

\* The spacing of the f32 values around the magnitude n (at least u).
RECURSIVE UlpFrom(_, _)
UlpFrom(n, u) ==
    IF n \div u < F32_EXACT_BELOW THEN u ELSE UlpFrom(n, 2 * u)

\* The multiple of u nearest to n, the even one of two equally near.
RoundToEven(n, u) ==
    IF 2 * (n % u) < u \/ (2 * (n % u) = u /\ (n \div u) % 2 = 0)
    THEN (n \div u) * u
    ELSE (n \div u + 1) * u

\* The f32 result of a sum or difference whose exact value is x: the
\* nearest value with 24 significant bits, ties to even.  Values are counted
\* in units of 1/Scale, so every count below 2^24 is kept as it is.
F32(x) ==
    IF Abs(x) < F32_EXACT_BELOW THEN x
    ELSE Sign(x) * RoundToEven(Abs(x), UlpFrom(Abs(x), 2))

\* ---------------------------------------------------------- BoundingBox
BoundingBox(anchor, size) == [anchor |-> anchor, size |-> size]

contains_point(self, point) ==
    LET offset == <<F32(point[1] - self.anchor[1]), F32(point[2] - self.anchor[2])>>
        width == self.size[1] \div 2
        height == self.size[2] \div 2
    IN  /\ offset[1] >= -width /\ offset[1] <= width
        /\ offset[2] >= -height /\ offset[2] <= height

contains_box(self, other) ==
    LET offset == <<other.size[1] \div 2, other.size[2] \div 2>>
        top_left == <<F32(other.anchor[1] - offset[1]), F32(other.anchor[2] - offset[2])>>
        bottom_right == <<F32(other.anchor[1] + offset[1]), F32(other.anchor[2] + offset[2])>>
    IN  contains_point(self, top_left) /\ contains_point(self, bottom_right)

intersects(self, other) ==
    LET s_width == self.size[1] \div 2
        s_height == self.size[2] \div 2
        o_width == other.size[1] \div 2
        o_height == other.size[2] \div 2
    IN  /\ F32(self.anchor[1] - s_width) < F32(other.anchor[1] + o_width)
        /\ F32(self.anchor[1] + s_width) > F32(other.anchor[1] - o_width)
        /\ F32(self.anchor[2] - s_height) < F32(other.anchor[2] + o_height)
        /\ F32(self.anchor[2] + s_height) > F32(other.anchor[2] - o_height)

\* Variant: on an axis on which the other box is not smaller it stays where
\* it is.
ClampAxisKept(self, other, k) ==
    IF other.size[k] < self.size[k]
    THEN LET size_difference == F32(other.size[k] - self.size[k]) \div 2
             distance == F32(self.anchor[k] - other.anchor[k])
         IN  F32(other.anchor[k]
               + (IF Abs(distance) <= -size_difference THEN 0
                  ELSE IF distance > 0 THEN F32(distance + size_difference)
                  ELSE F32(distance - size_difference)))
    ELSE other.anchor[k]

\* One axis (k = 1 for x, 2 for y) of clamp_box_inside.
ClampAxis(self, other, k) ==
    IF other.size[k] < self.size[k]
    THEN LET size_difference == F32(other.size[k] - self.size[k]) \div 2
             distance == F32(self.anchor[k] - other.anchor[k])
         IN  F32(other.anchor[k]
               + (IF Abs(distance) <= -size_difference THEN 0
                  ELSE IF distance > 0 THEN F32(distance + size_difference)
                  ELSE F32(distance - size_difference)))
    ELSE self.anchor[k]

\* Variant: a correction is returned for a contained box too.
ClampBoxAlways(self, other) ==
    Some(<<ClampAxis(self, other, 1), ClampAxis(self, other, 2)>>)

clamp_box_inside(self, other) ==
    IF contains_box(self, other) THEN None
    ELSE Some(<<ClampAxis(self, other, 1), ClampAxis(self, other, 2)>>)

\* ---------------------------------------------------- VelocityController
VelocityController(speed) ==
    [speed |-> speed, up |-> FALSE, right |-> FALSE, down |-> FALSE, left |-> FALSE]

\* Variant: only the vertical directions are cleared.
StopVerticalMovement(self) == [self EXCEPT !.up = FALSE, !.down = FALSE]

stop_movement(self) ==
    [self EXCEPT !.up = FALSE, !.down = FALSE, !.left = FALSE, !.right = FALSE]

set_direction(self, direction, value) ==
    CASE direction = "Up" -> [self EXCEPT !.up = value]
      [] direction = "Right" -> [self EXCEPT !.right = value]
      [] direction = "Down" -> [self EXCEPT !.down = value]
      [] direction = "Left" -> [self EXCEPT !.left = value]

\* The flag of a direction.
Flag(self, direction) ==
    CASE direction = "Up" -> self.up
      [] direction = "Right" -> self.right
      [] direction = "Down" -> self.down
      [] direction = "Left" -> self.left

\* Variant: the sum of the directions is not normalised.
NormalizedNever(v) == v

\* velocity *= 1.0 / magnitude.sqrt(), done when the squared magnitude is >= 1.0
Normalized(v) ==
    IF MagnitudeSquared(v) >= Scale * Scale
    THEN Resized(v, Scale)
    ELSE v

\* The sum of the unit vectors of the directions that are set.
Direction(self) ==
    <<(IF self.right THEN Scale ELSE 0) - (IF self.left THEN Scale ELSE 0),
      (IF self.up THEN Scale ELSE 0) - (IF self.down THEN Scale ELSE 0)>>

Scaled(v, factor) == <<Mul(v[1], factor), Mul(v[2], factor)>>

get_velocity(self) == Scaled(Normalized(Direction(self)), self.speed)

\* ---------------------------------------------------------------- Camera
\* 1e-4 is below the resolution 1/Scale of the fixed-point values.
CAMERA_DECELERATION_THRESHOLD == 0

\* Camera::new
NewCamera(descriptor) ==
    [name |-> descriptor.name,
     uniform_name |-> descriptor.name,
     position |-> <<0, 0>>,
     offset_position |-> <<0, 0>>,
     max_offset |-> descriptor.max_offset_position,
     decceleration_factor |-> Scale - DivRound(Scale, descriptor.acceleration_steps),
     velocity |-> VelocityController(DivRound(descriptor.speed, descriptor.acceleration_steps)),
     view_size |-> descriptor.view_size,
     target_entity |-> descriptor.target_entity,
     bound_entity |-> descriptor.bound_entity]

\* Variant: the controller is not stopped.
ResetOffsetOnly(self) == [self EXCEPT !.offset_position = <<0, 0>>]

reset_offset(self) ==
    [self EXCEPT !.velocity = stop_movement(self.velocity),
                 !.offset_position = <<0, 0>>]

\* Entity::position (default: the anchor of the bounding box) and
\* Entity::bounding_box of a host entity.
EntityPosition(entity) == entity.pos
EntityBoundingBox(entity) == BoundingBox(entity.pos, entity.size)

\* entities.iter().find(|entity| entity.name() == name): index or 0.
FindEntity(entities, name) ==
    IF \E i \in 1..Len(entities) : entities[i].name = name
    THEN CHOOSE i \in 1..Len(entities) :
            /\ entities[i].name = name
            /\ \A j \in 1..(i - 1) : entities[j].name # name
    ELSE 0

\* Variant: the offset never decays.
DecayedNever(self, velocity, k) == self.offset_position[k]

\* Camera::update, the decay of axis k of the offset while the velocity on
\* that axis is (nearly) zero.
Decayed(self, velocity, k) ==
    IF Abs(velocity[k]) <= CAMERA_DECELERATION_THRESHOLD
    THEN Mul(self.offset_position[k], self.decceleration_factor)
    ELSE self.offset_position[k]

\* Variant: the offset is not clamped.
ClampedNever(offset, max_offset) == offset

\* Camera::update, the radial clamp of the offset.
ClampedToRadius(offset, max_offset) ==
    IF MagnitudeSquared(offset) >= max_offset * max_offset
    THEN Resized(offset, max_offset)
    ELSE offset

\* Camera::update, the offset after decay, velocity and clamp.
MovedOffset(self, velocity) ==
    ClampedToRadius(<<Decayed(self, velocity, 1) + velocity[1],
                      Decayed(self, velocity, 2) + velocity[2]>>,
                    self.max_offset)

UpdateOffset(self) == MovedOffset(self, get_velocity(self.velocity))

\* Camera::bounding_box
CameraBoundingBox(self) ==
    BoundingBox(<<F32(self.position[1] + self.offset_position[1]),
                  F32(self.position[2] + self.offset_position[2])>>, self.view_size)

\* Camera::update, the match on clamp_box_inside: Some(new_offset) moves
\* the position to new_offset - offset_position.
Repositioned(self, clamped) ==
    IF clamped = None THEN self
    ELSE [self EXCEPT !.position =
            <<F32(Unwrap(clamped)[1] - self.offset_position[1]),
              F32(Unwrap(clamped)[2] - self.offset_position[2])>>]

\* Camera::update from the bound-entity lookup on (b: its index or 0).
ClampToBound(self, entities, b) ==
    IF b = 0 THEN [camera |-> self, ok |-> FALSE]
    ELSE [camera |-> Repositioned(self,
                        clamp_box_inside(EntityBoundingBox(entities[b]),
                                         CameraBoundingBox(self))),
          ok |-> TRUE]

\* Camera::update after the offset and the position are set.
KeepInBounds(self, entities) ==
    IF self.bound_entity = None THEN [camera |-> self, ok |-> TRUE]
    ELSE ClampToBound(self, entities,
                      FindEntity(entities, Unwrap(self.bound_entity)))

\* Variant: the offset moves although the target was not found.
FollowTargetBlindly(self, entities, t) ==
    IF t = 0 THEN [camera |-> [self EXCEPT !.offset_position = UpdateOffset(self)],
                   ok |-> FALSE]
    ELSE KeepInBounds([self EXCEPT !.offset_position = UpdateOffset(self),
                                   !.position = EntityPosition(entities[t])],
                      entities)

\* Camera::update from the target lookup on (t: its index or 0).
FollowTarget(self, entities, t) ==
    IF t = 0 THEN [camera |-> self, ok |-> FALSE]
    ELSE KeepInBounds([self EXCEPT !.offset_position = UpdateOffset(self),
                                   !.position = EntityPosition(entities[t])],
                      entities)

\* Camera::update: the camera afterwards and whether the update completed
\* (it returns early, leaving the camera as it is at that point, when the
\* target or the bound entity is not among the entities).
CameraUpdate(self, entities) ==
    FollowTarget(self, entities, FindEntity(entities, self.target_entity))

\* Camera::handle_key_input: W/A/S/D set or clear one direction flag.
KeyDirection(key) ==
    CASE key = "KeyW" -> Some("Up")
      [] key = "KeyA" -> Some("Left")
      [] key = "KeyD" -> Some("Right")
      [] key = "KeyS" -> Some("Down")
      [] OTHER -> None

CameraHandleKeyInput(self, key, pressed) ==
    IF KeyDirection(key) = None THEN self
    ELSE [self EXCEPT !.velocity =
             set_direction(self.velocity, Unwrap(KeyDirection(key)), pressed)]

\* ---------------------------------------------- resources and host data
\* The camera of render scene "r1": speed 1.0 reached in one step, free
\* offset of at most 1.0, following the entity "t", no bound entity.
CameraR1 ==
    [name |-> "cam", view_size |-> <<4 * Scale, 4 * Scale>>, speed |-> Scale,
     acceleration_steps |-> 1, target_entity |-> "t", bound_entity |-> None,
     max_offset_position |-> Scale]

\* The RessourceDescriptor the game is built with: both windows are
\* described, render scene "r1" has a camera, every other render scene
\* falls back to the default descriptor, which has none.
ressources ==
    [windows |-> <<"w1", "w2">>,
     uniforms |-> <<>>,
     default_render_scene |-> [camera |-> None],
     render_scenes |-> << [names |-> <<"r1">>, camera |-> Some(CameraR1)] >>]

\* RessourceDescriptor::get_window
get_window(name) ==
    IF Contains(ressources.windows, name) THEN Some(name) ELSE None

\* RessourceDescriptor::get_uniform
get_uniform(name) ==
    IF Contains(ressources.uniforms, name) THEN Some(name) ELSE None

\* RessourceDescriptor::get_render_scene: the first entry listing the name,
\* else the default.
get_render_scene(name) ==
    LET rs == ressources.render_scenes
    IN  IF \E i \in 1..Len(rs) : Contains(rs[i].names, name)
        THEN rs[CHOOSE i \in 1..Len(rs) :
                    /\ Contains(rs[i].names, name)
                    /\ \A j \in 1..(i - 1) : ~Contains(rs[j].names, name)]
        ELSE ressources.default_render_scene

\* format!("{:?} camera", render_scene.as_str())
CameraUniformName(render_scene) == <<render_scene, "camera">>

Entity(id, name, z) ==
    [id |-> id, name |-> name, z |-> z, pos |-> <<0, 0>>,
     size |-> <<2 * Scale, 2 * Scale>>]

\* The scenes the host creates (State::start_scenes and new-scenes
\* requests).  Scenes 1 and 2 have the same name, scenes 1 and 3 the same
\* render scene on different windows, scene 4 shares neither.
ScenePool ==
    << [id |-> 1, name |-> "A", render_scene |-> "r1", target_window |-> "w1",
        z_index |-> 2, shader_uniforms |-> <<>>,
        entities |-> <<Entity(11, "t", 1), Entity(12, "c", 0), Entity(13, "c", 0)>>],
       [id |-> 2, name |-> "A", render_scene |-> "r2", target_window |-> "w1",
        z_index |-> 1, shader_uniforms |-> <<>>,
        entities |-> <<Entity(21, "t", 0)>>],
       [id |-> 3, name |-> "B", render_scene |-> "r1", target_window |-> "w2",
        z_index |-> 1, shader_uniforms |-> <<>>,
        entities |-> <<Entity(31, "t", 0)>>],
       [id |-> 4, name |-> "C", render_scene |-> "r4", target_window |-> "w1",
        z_index |-> 3, shader_uniforms |-> <<>>,
        entities |-> <<Entity(41, "t", 0)>>] >>

ScenesOf(ids) == [i \in 1..Len(ids) |-> ScenePool[ids[i]]]

\* State::start_scenes of the host.
StartScenes == {<<1>>, <<2>>}

\* ------------------------------------------------------------ the events
\* A host event answers every classification query of ExternalEvent; a
\* query that returns Option is a field holding None or Some(payload).
EmptyEvent ==
    [new_scenes |-> None, add_entities |-> None, set_visibility |-> None,
     suspend |-> None, activate |-> None, delete_scene |-> None,
     update_uniform |-> None, delete_entity |-> None, render_scene |-> None,
     end_game |-> FALSE, entity_event |-> None]

NewScenesRequest(ids) == [EmptyEvent EXCEPT !.new_scenes = Some(ids)]
SuspendRequest(scene) == [EmptyEvent EXCEPT !.suspend = Some(scene)]
ActivateRequest(scene) == [EmptyEvent EXCEPT !.activate = Some(scene)]
DeleteSceneRequest(scene) == [EmptyEvent EXCEPT !.delete_scene = Some(scene)]
DeleteEntityRequest(entity, scene) ==
    [EmptyEvent EXCEPT !.delete_entity = Some(<<entity, scene>>)]
AddEntitiesRequest(entities, scene) ==
    [EmptyEvent EXCEPT !.add_entities = Some(<<entities, scene>>)]
SetVisibilityRequest(scene, visibility) ==
    [EmptyEvent EXCEPT !.set_visibility = Some(<<scene, visibility>>)]
RenderSceneRequest(scene) == [EmptyEvent EXCEPT !.render_scene = Some(scene)]
EntityEventFor(target, payload) ==
    [EmptyEvent EXCEPT !.entity_event = Some(<<target, payload>>)]
EndGameRequest == [EmptyEvent EXCEPT !.end_game = TRUE]

\* The events a host that builds and tears down scenes emits.
HostEvents ==
    {NewScenesRequest(<<3>>), NewScenesRequest(<<3, 1>>), NewScenesRequest(<<4>>),
     SuspendRequest("A"), ActivateRequest("A"), DeleteSceneRequest("A"),
     DeleteEntityRequest("c", "A")}

\* The events a host emits that works on the scenes it started with: one
\* event for each routing rule but new-scenes and update-uniform-buffer.
RoutingEvents ==
    {AddEntitiesRequest(<<Entity(14, "c", 0)>>, "A"),
     SetVisibilityRequest("A", FALSE),
     SuspendRequest("A"), ActivateRequest("A"), DeleteSceneRequest("A"),
     DeleteEntityRequest("c", "A"), RenderSceneRequest("A"),
     EndGameRequest, EntityEventFor("c", "hit")}

\* State::start_scenes of that host.
RoutingStartScenes == {<<1>>, <<3, 1>>}

\* E::new_scene(&scene): a notification that matches no routing rule.
new_scene(scene) == EmptyEvent

\* The queries and the consuming accessors of a host type in which they
\* agree: the query is true exactly when the accessor returns Some(payload).
is_request_new_scenes(event) == IsSome(event.new_scenes)
consume_scenes_request(event) == event.new_scenes
is_add_entities(event) == IsSome(event.add_entities)
consume_add_entities_request(event) == event.add_entities
is_entity_event(event) == IsSome(event.entity_event)
consume_entity_event(event) == event.entity_event

\* GameEvent
Resumed == [type |-> "Resumed"]
Timer == [type |-> "Timer"]
NewWindow(id, name) == [type |-> "NewWindow", id |-> id, name |-> name]
RequestNewWindow(name) == [type |-> "RequestNewWindow", name |-> name]
RenderUpdate(render_scene) == [type |-> "RenderUpdate", render_scene |-> render_scene]
NewRenderScene(render_scene) == [type |-> "NewRenderScene", render_scene |-> render_scene]
RequestNewRenderScene(window, render_scene, uniforms) ==
    [type |-> "RequestNewRenderScene", window |-> window,
     render_scene |-> render_scene, uniforms |-> uniforms]
RequestSetVisibilityRenderScene(render_scene, visibility) ==
    [type |-> "RequestSetVisibilityRenderScene", render_scene |-> render_scene,
     visibility |-> visibility]
External(event) == [type |-> "External", event |-> event]
EndGame == [type |-> "EndGame"]
NoEvent == [type |-> "None"]

\* ApplicationEvent::is_render_update and consume_render_update of
\* GameEvent: the accessor panics (None here) on any other event.
is_render_update(event) == event.type = "RenderUpdate"
consume_render_update(event) ==
    IF event.type = "RenderUpdate" THEN Some(event.render_scene) ELSE None

\* ----------------------------------------------------------- the state
VARIABLES
    pending_scenes,     \* Game::pending_scenes
    active_scenes,      \* Game::active_scenes
    suspended_scenes,   \* Game::suspended_scenes
    window_ids,         \* Game::window_ids: <<window name, window id>>
    cameras,            \* Game::cameras: [scene, camera, uniform]
    surfaces,           \* GraphicsProvider::surfaces: window ids
    render_scenes,      \* GraphicsProvider::render_scenes: <<window id, name>>
    uniform_buffers,    \* GraphicsProvider::uniform_buffers: <<render scene, uniform>>
    queue,              \* the events posted to the winit event loop, oldest first
    timer_threads,      \* number of timer threads spawned
    exited,             \* event_loop.exit() was called
    panicked,           \* "" or the message of the panic that ended the process
    handled,            \* the event the last step dispatched (NoEvent otherwise)
    calls,              \* calls the last dispatched handler made on entities,
                        \* the State and the renderer (<<>> otherwise)
    trace,              \* those calls and the events the handler sent, in the
                        \* order in which it made and sent them
    created,            \* ids of the scenes and entities the host has created
    delete_requested,   \* a delete-scene request has been dispatched
    host_events,        \* the events the host's entities and State return
    timer_interleaves,  \* the timer thread may post while a handler runs
    cam,                \* a Camera driven on its own
    cam_siblings,       \* the entities passed to its last update
    cam_keys,           \* the keys its player uses
    cam_op,             \* the last call on it: [op, ok]
    cam_rest,           \* Some(it was moving) since reset_offset, None after
                        \* the next key press
    vc,                 \* a VelocityController driven on its own
    vc_op,              \* the last call on it: [op, direction, value, result]
    vc_stopped,         \* Some(it was moving) since stop_movement, None after
                        \* the next set_direction(_, true)
    box_self,           \* a BoundingBox
    box_other,          \* another BoundingBox
    box_op              \* the last call on them: [op, point, holds, correction]

vars == <<pending_scenes, active_scenes, suspended_scenes, window_ids, cameras,
          surfaces, render_scenes, uniform_buffers, queue, timer_threads,
          exited, panicked, handled, calls, trace, created, delete_requested,
          host_events, timer_interleaves, cam, cam_siblings, cam_keys, cam_op, cam_rest,
          vc, vc_op, vc_stopped, box_self, box_other, box_op>>

\* The variables of the orchestrator and of the camera driven on its own.
game_vars == <<pending_scenes, active_scenes, suspended_scenes, window_ids,
               cameras, surfaces, render_scenes, uniform_buffers, queue,
               timer_threads, exited, panicked, handled, calls, trace,
               created, delete_requested, host_events, timer_interleaves>>
camera_vars == <<cam, cam_siblings, cam_keys, cam_op, cam_rest>>
\* The variables of the velocity controller and of the bounding boxes that
\* are driven on their own, and all that the orchestrator leaves alone.
controller_vars == <<vc, vc_op, vc_stopped>>
box_vars == <<box_self, box_other, box_op>>
component_vars == <<camera_vars, controller_vars, box_vars>>

\* The state a handler works on: the fields of Game and GraphicsProvider,
\* the events it has sent (out), the calls it has made, the host events
\* the host code it calls will return (emit), and the panic it hit.
Cur(emit) ==
    [pending_scenes |-> pending_scenes, active_scenes |-> active_scenes,
     suspended_scenes |-> suspended_scenes, window_ids |-> window_ids,
     cameras |-> cameras, surfaces |-> surfaces, render_scenes |-> render_scenes,
     uniform_buffers |-> uniform_buffers, out |-> <<>>, calls |-> <<>>,
     trace |-> <<>>, emit |-> emit, panic |-> ""]

\* WindowManager::send_event
send_event(g, event) ==
    [g EXCEPT !.out = Append(@, event),
              !.trace = Append(@, [op |-> "send_event", scene |-> 0,
                                   entity |-> 0, arg |-> event])]
Call(g, op, scene, entity, arg) ==
    [g EXCEPT !.calls = Append(@, [op |-> op, scene |-> scene,
                                   entity |-> entity, arg |-> arg]),
              !.trace = Append(@, [op |-> op, scene |-> scene,
                                   entity |-> entity, arg |-> arg])]
Panic(g, message) == [g EXCEPT !.panic = message]

\* payload.expect(message): the handler goes on to `result` with the
\* payload, or panics when the accessor has returned None.
Expect(g, payload, message, result) ==
    IF payload = None THEN Panic(g, message) ELSE result

\* ------------------------------------------------- Game: scene activation
\* The first window id recorded for the window name, or None.
FindWindowId(ids, name) ==
    IF \E i \in 1..Len(ids) : ids[i][1] = name
    THEN Some(ids[CHOOSE i \in 1..Len(ids) :
                    /\ ids[i][1] = name
                    /\ \A j \in 1..(i - 1) : ids[j][1] # name][2])
    ELSE None

\* Game::get_window_name
get_window_name(ids, id) ==
    IF \E i \in 1..Len(ids) : ids[i][2] = id
    THEN Some(ids[CHOOSE i \in 1..Len(ids) :
                    /\ ids[i][2] = id
                    /\ \A j \in 1..(i - 1) : ids[j][2] # id][1])
    ELSE None

\* Game::request_render_scene
request_render_scene(g, target_window, render_scene, scene, shader_uniforms) ==
    LET camera == get_render_scene(render_scene).camera
        label == CameraUniformName(render_scene)
    IN  IF \E i \in 1..Len(shader_uniforms) : get_uniform(shader_uniforms[i]) = None
        THEN Panic(g, "Did not specify UniformBuffer in RessourceDescriptor")
        ELSE IF IsSome(camera)
        THEN send_event(
               [g EXCEPT !.cameras = Append(@, [scene |-> scene,
                                                camera |-> NewCamera(Unwrap(camera)),
                                                uniform |-> label])],
               RequestNewRenderScene(target_window, render_scene,
                                     Append(shader_uniforms, label)))
        ELSE send_event(g, RequestNewRenderScene(target_window, render_scene,
                                                 shader_uniforms))

\* The window names of the scenes, each once, in order of first occurrence.
RECURSIVE NeededWindows(_)
NeededWindows(scenes) ==
    IF scenes = <<>> THEN <<>>
    ELSE LET before == NeededWindows(SubSeq(scenes, 1, Len(scenes) - 1))
             w == scenes[Len(scenes)].target_window
         IN  IF Contains(before, w) THEN before ELSE Append(before, w)

RECURSIVE RequestRenderScenes(_, _)
RequestRenderScenes(g, scenes) ==
    IF scenes = <<>> \/ g.panic # "" THEN g
    ELSE RequestRenderScenes(
            request_render_scene(g,
                Unwrap(FindWindowId(g.window_ids, scenes[1].target_window)),
                scenes[1].render_scene, scenes[1].name, scenes[1].shader_uniforms),
            Tail(scenes))

RECURSIVE RequestWindows(_, _)
RequestWindows(g, names) ==
    IF names = <<>> \/ g.panic # "" THEN g
    ELSE IF get_window(names[1]) = None
         THEN Panic(g, "No ressources provided for window")
         ELSE RequestWindows(send_event(g, RequestNewWindow(names[1])), Tail(names))

\* Variant: no pending scene is found to be a duplicate.
ScenesToDiscardNone(g) == {}

\* The pending scenes activate_scenes discards: those named like an active scene.
ScenesToDiscard(g) ==
    {g.pending_scenes[i].name : i \in
        {j \in 1..Len(g.pending_scenes) :
            g.pending_scenes[j].name \in Names(g.active_scenes)}}

\* Game::activate_scenes
activate_scenes(g) ==
    LET scenes_to_discard == ScenesToDiscard(g)
        Kept(s) == s.name \notin scenes_to_discard
        HasWindow(s) == Kept(s) /\ IsSome(FindWindowId(g.window_ids, s.target_window))
        NoWindow(s) == Kept(s) /\ FindWindowId(g.window_ids, s.target_window) = None
        scenes_to_request == SelectSeq(g.pending_scenes, HasWindow)
        needed_windows == NeededWindows(SelectSeq(g.pending_scenes, NoWindow))
        g1 == RequestRenderScenes(g, scenes_to_request)
        g2 == RequestWindows(g1, needed_windows)
    IN  IF g2.panic # "" THEN g2
        ELSE [g2 EXCEPT !.pending_scenes = SelectSeq(@, Kept)]

\* GameEvent::Resumed (the timer thread is spawned by the action)
OnResumed(g) == activate_scenes(g)

\* The loop of GameEvent::NewWindow over the pending scenes of the window.
RECURSIVE RequestForWindow(_, _, _)
RequestForWindow(g, id, scenes) ==
    IF scenes = <<>> \/ g.panic # "" THEN g
    ELSE RequestForWindow(
            request_render_scene(g, id, scenes[1].render_scene, scenes[1].name,
                                 scenes[1].shader_uniforms),
            id, Tail(scenes))

\* GameEvent::NewWindow: record the id, request the render scene of every
\* pending scene that targets the window.
OnNewWindow(g, id, name) ==
    LET Targets(s) == s.target_window = name
    IN  RequestForWindow([g EXCEPT !.window_ids = Append(@, <<name, id>>)],
                         id, SelectSeq(g.pending_scenes, Targets))

\* GameEvent::NewRenderScene: promote the first pending scene with the
\* render scene name (the scenes of the model have no sprite sheets).
OnNewRenderScene(g, render_scene) ==
    LET index == PositionByRenderScene(g.pending_scenes, render_scene)
    IN  IF index = 0 THEN Panic(g, "Scene Vanished before getting created fully")
        ELSE LET scene == g.pending_scenes[index]
             IN  send_event(
                   [g EXCEPT !.pending_scenes = RemoveAt(@, index),
                             !.active_scenes = SortByZIndex(Append(@, scene))],
                   External(new_scene(scene)))

\* ------------------------------------------------- the application layer
\* ManagerApplication::create_window: the platform creates a window with a
\* fresh id, NewWindow is posted and the renderer gets a surface for it.
create_window(g, name) ==
    LET id == Len(g.surfaces) + 1
    IN  [send_event(g, NewWindow(id, name)) EXCEPT !.surfaces = Append(@, id)]

\* GraphicsProvider::add_render_scene
add_render_scene(g, window_id, render_scene, initial_uniforms) ==
    IF ~Contains(g.surfaces, window_id) THEN Panic(g, "No surface on window")
    ELSE [g EXCEPT
            !.uniform_buffers =
                @ \o [i \in 1..Len(initial_uniforms) |-> <<render_scene, initial_uniforms[i]>>],
            !.render_scenes = Append(@, <<window_id, render_scene>>)]

\* GraphicsProvider::remove_render_scene
remove_render_scene(g, render_scene) ==
    LET Other(r) == r[2] # render_scene
    IN  Call([g EXCEPT !.render_scenes = SelectSeq(@, Other)],
             "remove_render_scene", 0, 0, render_scene)

\* GraphicsProvider::update_uniform_buffer
update_uniform_buffer(g, label) ==
    LET ub == g.uniform_buffers
    IN  IF \E i \in 1..Len(ub) : ub[i][2] = label
        THEN LET target == ub[CHOOSE i \in 1..Len(ub) :
                                /\ ub[i][2] = label
                                /\ \A j \in 1..(i - 1) : ub[j][2] # label][1]
             IN  IF \E k \in 1..Len(g.render_scenes) : g.render_scenes[k][2] = target
                 THEN Call(g, "update_uniform_buffer", 0, 0, label)
                 ELSE Panic(g, "RenderScene vanished")
        ELSE g

\* ------------------------------------------------------ Game: Timer tick
\* Variant: the whole entity list is passed, the updated entity included.
InteractionsWithSelf(entities, i) == entities

\* left.iter().chain(right.iter()): the entities an update of entities[i] sees.
Interactions(entities, i) ==
    SubSeq(entities, 1, i - 1) \o SubSeq(entities, i + 1, Len(entities))

EntityIds(entities) == [k \in 1..Len(entities) |-> entities[k].id]

\* What one entity update or one State::handle_event returns.
HostEmits == {<<>>} \cup {<<e>> : e \in host_events}

\* The events one update returns: the host's next emission, if any is left.
TakeEmit(g) == [send |-> g.emit, g |-> [g EXCEPT !.emit = <<>>]]

RECURSIVE SendAll(_, _)
SendAll(g, events) ==
    IF events = <<>> THEN g
    ELSE SendAll(send_event(g, External(events[1])), Tail(events))

\* The entity loop of one scene: update entity i with its siblings, post
\* the events it returns, render it.
RECURSIVE UpdateAndRender(_, _, _, _)
UpdateAndRender(g, scene, entities, i) ==
    IF i > Len(entities) THEN g
    ELSE LET g1 == Call(g, "update", scene.id, entities[i].id,
                        EntityIds(Interactions(entities, i)))
             t == TakeEmit(g1)
             g2 == SendAll(t.g, t.send)
             g3 == Call(g2, "render", scene.id, entities[i].id, <<>>)
         IN  UpdateAndRender(g3, scene, entities, i + 1)

\* Index of the first camera registered for the scene name (0: none).
FindCamera(cams, name) ==
    IF \E i \in 1..Len(cams) : cams[i].scene = name
    THEN CHOOSE i \in 1..Len(cams) :
            /\ cams[i].scene = name
            /\ \A j \in 1..(i - 1) : cams[j].scene # name
    ELSE 0

\* The camera step of a tick: advance the scene's camera against the
\* entities and push its bytes to the renderer.
AdvanceCamera(g, scene, entities) ==
    LET c == FindCamera(g.cameras, scene.name)
    IN  IF c = 0 THEN g
        ELSE LET r == CameraUpdate(g.cameras[c].camera, entities)
                 g1 == Call([g EXCEPT !.cameras[c].camera = r.camera],
                            "camera_update", scene.id, 0, r.ok)
             IN  update_uniform_buffer(g1, g.cameras[c].uniform)

\* Variant: the RenderUpdate carries the name of the scene.
TickSceneByName(g, scene) ==
    LET entities == SortEntitiesByZ(scene.entities)
        g1 == UpdateAndRender(g, scene, entities, 1)
        g2 == AdvanceCamera(g1, scene, entities)
    IN  IF g2.panic # "" THEN g2
        ELSE send_event(g2, RenderUpdate(scene.name))

\* The body of the Timer loop for one scene; the scene afterwards has its
\* entities sorted by z.
TickScene(g, scene) ==
    LET entities == SortEntitiesByZ(scene.entities)
        g1 == UpdateAndRender(g, scene, entities, 1)
        g2 == AdvanceCamera(g1, scene, entities)
    IN  IF g2.panic # "" THEN g2
        ELSE send_event(g2, RenderUpdate(scene.render_scene))

\* Runs the loop body over active_scenes (bucket 1) and then
\* suspended_scenes (bucket 2), from scene i of the bucket on.
RECURSIVE TickFrom(_, _, _)
TickFrom(g, bucket, i) ==
    LET scenes == IF bucket = 1 THEN g.active_scenes ELSE g.suspended_scenes
    IN  IF g.panic # "" THEN g
        ELSE IF i > Len(scenes)
        THEN (IF bucket = 1 THEN TickFrom(g, 2, 1) ELSE g)
        ELSE LET g1 == TickScene(g, scenes[i])
                 sorted == SortEntitiesByZ(scenes[i].entities)
                 g2 == IF bucket = 1
                       THEN [g1 EXCEPT !.active_scenes[i].entities = sorted]
                       ELSE [g1 EXCEPT !.suspended_scenes[i].entities = sorted]
             IN  TickFrom(g2, bucket, i + 1)

\* GameEvent::Timer
OnTimer(g) == TickFrom(g, 1, 1)

\* The render calls on the entities from index k on.
RECURSIVE RenderFrom(_, _, _, _)
RenderFrom(g, scene, entities, k) ==
    IF k > Len(entities) THEN g
    ELSE RenderFrom(Call(g, "render", scene.id, entities[k].id, <<>>),
                    scene, entities, k + 1)

\* Scene::simple_render
simple_render(g, i) ==
    LET scene == g.active_scenes[i]
        entities == SortEntitiesByZ(scene.entities)
    IN  send_event(
          RenderFrom([g EXCEPT !.active_scenes[i].entities = entities],
                     scene, entities, 1),
          RenderUpdate(scene.render_scene))

\* ------------------------------------------- Game: external event routing
\* .find in active_scenes, else in suspended_scenes: <<bucket, index>>,
\* bucket 1 for active, 2 for suspended, <<0, 0>> when neither has it.
FindScene(g, name) ==
    IF PositionByName(g.active_scenes, name) # 0
    THEN <<1, PositionByName(g.active_scenes, name)>>
    ELSE IF PositionByName(g.suspended_scenes, name) # 0
    THEN <<2, PositionByName(g.suspended_scenes, name)>>
    ELSE <<0, 0>>

SceneAt(g, at) ==
    IF at[1] = 1 THEN g.active_scenes[at[2]] ELSE g.suspended_scenes[at[2]]

SetEntities(g, at, entities) ==
    IF at[1] = 1 THEN [g EXCEPT !.active_scenes[at[2]].entities = entities]
    ELSE [g EXCEPT !.suspended_scenes[at[2]].entities = entities]

\* is_request_new_scenes: extend pending_scenes, try to activate.
RuleNewScenes(g, scenes) ==
    activate_scenes([g EXCEPT !.pending_scenes = @ \o scenes])

\* is_add_entities
RuleAddEntities(g, entities, scene) ==
    LET at == FindScene(g, scene)
    IN  IF at[1] = 0 THEN Panic(g, "Found no active nor suspended scene")
        ELSE SetEntities(g, at, SceneAt(g, at).entities \o entities)

\* is_request_set_visibility_scene
RuleSetVisibility(g, scene, visibility) ==
    LET at == FindScene(g, scene)
    IN  IF at[1] = 0 THEN Panic(g, "Found no active nor suspended scene")
        ELSE send_event(g, RequestSetVisibilityRenderScene(
                               SceneAt(g, at).render_scene, visibility))

\* The cameras list after camera.reset_offset() on every camera of the scene.
ResetCameras(cams, scene) ==
    [i \in 1..Len(cams) |->
        IF cams[i].scene = scene
        THEN [cams[i] EXCEPT !.camera = reset_offset(@)]
        ELSE cams[i]]

\* is_request_suspend_scene
RuleSuspend(g, suspendable_scene) ==
    LET index == PositionByName(g.active_scenes, suspendable_scene)
    IN  IF index = 0 THEN g
        ELSE [g EXCEPT !.active_scenes = RemoveAt(@, index),
                       !.suspended_scenes = Append(@, g.active_scenes[index]),
                       !.cameras = ResetCameras(@, suspendable_scene)]

\* is_request_activate_suspended_scene
RuleActivate(g, activatable_scene) ==
    LET index == PositionByName(g.suspended_scenes, activatable_scene)
    IN  IF index = 0 THEN g
        ELSE [g EXCEPT !.suspended_scenes = RemoveAt(@, index),
                       !.active_scenes =
                           SortByZIndex(Append(@, g.suspended_scenes[index]))]

\* is_request_delete_scene
RuleDeleteScene(g, deletable_scene) ==
    LET active_index == PositionByName(g.active_scenes, deletable_scene)
        suspended_index == PositionByName(g.suspended_scenes, deletable_scene)
        OtherCamera(c) == c.scene # deletable_scene
        g1 == IF active_index # 0
              THEN remove_render_scene(
                     [g EXCEPT !.active_scenes = RemoveAt(@, active_index)],
                     g.active_scenes[active_index].render_scene)
              ELSE IF suspended_index # 0
              THEN remove_render_scene(
                     [g EXCEPT !.suspended_scenes = RemoveAt(@, suspended_index)],
                     g.suspended_scenes[suspended_index].render_scene)
              ELSE g
    IN  [g1 EXCEPT !.cameras = SelectSeq(@, OtherCamera)]

\* The delete_child_entity(name) calls on the entities of the scene, in order.
RECURSIVE NotifyDeleted(_, _, _, _)
NotifyDeleted(g, scene, entities, name) ==
    IF entities = <<>> THEN g
    ELSE NotifyDeleted(Call(g, "delete_child_entity", scene.id, entities[1].id, name),
                       scene, Tail(entities), name)

\* is_delete_entity
RuleDeleteEntity(g, entity, scene) ==
    LET at == FindScene(g, scene)
        Keep(e) == e.name # entity
    IN  IF at[1] = 0 THEN Panic(g, "Found no active nor suspended scene")
        ELSE LET remaining == SelectSeq(SceneAt(g, at).entities, Keep)
             IN  NotifyDeleted(SetEntities(g, at, remaining), SceneAt(g, at),
                               remaining, entity)

\* is_request_render_scene
RuleRenderScene(g, scene) ==
    LET index == PositionByName(g.active_scenes, scene)
    IN  IF index = 0 THEN g ELSE simple_render(g, index)

\* Variant: the target is never found.
FindTargetEntityNone(g, target) == <<0, 0>>

\* The first active scene that has an entity with the name: <<scene index,
\* entity index>>, <<0, 0>> when no active scene has one.
FindTargetEntity(g, target) ==
    LET Has(i) == FindEntity(g.active_scenes[i].entities, target) # 0
    IN  IF \E i \in 1..Len(g.active_scenes) : Has(i)
        THEN LET i == CHOOSE i \in 1..Len(g.active_scenes) :
                        Has(i) /\ \A j \in 1..(i - 1) : ~Has(j)
             IN  <<i, FindEntity(g.active_scenes[i].entities, target)>>
        ELSE <<0, 0>>

\* The tail of the handler: deliver an entity event to its target, hand
\* every other event to State::handle_event, post the returned events.
DeliverToEntity(g, target, payload) ==
    LET at == FindTargetEntity(g, target)
    IN  IF at[1] = 0 THEN g
        ELSE LET scene == g.active_scenes[at[1]]
                 t == TakeEmit(Call(g, "handle_event", scene.id,
                                    scene.entities[at[2]].id, payload))
             IN  SendAll(t.g, t.send)

DeliverToState(g) ==
    LET t == TakeEmit(Call(g, "state_handle_event", 0, 0, <<>>))
    IN  SendAll(t.g, t.send)

\* Variant: the entity event is consumed before the event is asked whether
\* it is one.
RuleRespondUnasked(g, event) ==
    Expect(g, consume_entity_event(event), "unreachable",
           IF is_entity_event(event)
           THEN DeliverToEntity(g, Unwrap(consume_entity_event(event))[1],
                                Unwrap(consume_entity_event(event))[2])
           ELSE DeliverToState(g))

RuleRespond(g, event) ==
    IF is_entity_event(event)
    THEN Expect(g, consume_entity_event(event), "unreachable",
                DeliverToEntity(g, Unwrap(consume_entity_event(event))[1],
                                Unwrap(consume_entity_event(event))[2]))
    ELSE DeliverToState(g)

\* `result` when the predicate matched and nothing has panicked.
Apply(g, matched, result) == IF g.panic # "" \/ ~matched THEN g ELSE result

\* The rules of the handler that do not return, in source order.
ApplySetVisibility(g, event) ==
    Apply(g, IsSome(event.set_visibility),
          RuleSetVisibility(g, Unwrap(event.set_visibility)[1],
                            Unwrap(event.set_visibility)[2]))
ApplySuspend(g, event) ==
    Apply(g, IsSome(event.suspend), RuleSuspend(g, Unwrap(event.suspend)))
ApplyActivate(g, event) ==
    Apply(g, IsSome(event.activate), RuleActivate(g, Unwrap(event.activate)))
ApplyDeleteScene(g, event) ==
    Apply(g, IsSome(event.delete_scene),
          RuleDeleteScene(g, Unwrap(event.delete_scene)))
ApplyUpdateUniform(g, event) ==
    Apply(g, IsSome(event.update_uniform),
          update_uniform_buffer(g, Unwrap(event.update_uniform)[1]))
ApplyDeleteEntity(g, event) ==
    Apply(g, IsSome(event.delete_entity),
          RuleDeleteEntity(g, Unwrap(event.delete_entity)[1],
                           Unwrap(event.delete_entity)[2]))
ApplyRenderScene(g, event) ==
    Apply(g, IsSome(event.render_scene),
          RuleRenderScene(g, Unwrap(event.render_scene)))

\* Variant: the handler does not return after sending EndGame.
FinishAndRespond(g, event) ==
    IF g.panic # "" THEN g
    ELSE IF event.end_game THEN RuleRespond(send_event(g, EndGame), event)
    ELSE RuleRespond(g, event)

\* is_end_game returns after sending EndGame; every other event reaches
\* the tail of the handler.
Finish(g, event) ==
    IF g.panic # "" THEN g
    ELSE IF event.end_game THEN send_event(g, EndGame)
    ELSE RuleRespond(g, event)

\* GameEvent::External
OnExternal(g, event) ==
    IF is_request_new_scenes(event)
    THEN Expect(g, consume_scenes_request(event),
                "Bad implementation of ExternalEvent::is_request_new_scenes()",
                RuleNewScenes(g, ScenesOf(Unwrap(consume_scenes_request(event)))))
    ELSE IF is_add_entities(event)
    THEN Expect(g, consume_add_entities_request(event),
                "Bad implementation of ExternalEvent::is_add_entities()",
                RuleAddEntities(g, Unwrap(consume_add_entities_request(event))[1],
                                Unwrap(consume_add_entities_request(event))[2]))
    ELSE Finish(
           ApplyRenderScene(
             ApplyDeleteEntity(
               ApplyUpdateUniform(
                 ApplyDeleteScene(
                   ApplyActivate(
                     ApplySuspend(
                       ApplySetVisibility(g, event),
                       event),
                     event),
                   event),
                 event),
               event),
             event),
           event)

\* The key goes to the entities and to the camera of every active scene,
\* from index i on, that targets the window.
RECURSIVE KeysFrom(_, _, _, _, _)
KeysFrom(g, window_name, key, pressed, i) ==
    IF i > Len(g.active_scenes) THEN g
    ELSE IF g.active_scenes[i].target_window # window_name
    THEN KeysFrom(g, window_name, key, pressed, i + 1)
    ELSE LET scene == g.active_scenes[i]
             g1 == Call(g, "handle_key_input", scene.id, 0, key)
             c == FindCamera(g1.cameras, scene.name)
         IN  KeysFrom(IF c = 0 THEN g1
                      ELSE [g1 EXCEPT !.cameras[c].camera =
                               CameraHandleKeyInput(@, key, pressed)],
                      window_name, key, pressed, i + 1)

\* Game::window_event, WindowEvent::KeyboardInput (the entities of the
\* model return no events from handle_key_input)
OnKeyboardInput(g, id, key, pressed) ==
    LET window_name == get_window_name(g.window_ids, id)
    IN  IF window_name = None THEN g
        ELSE KeysFrom(g, Unwrap(window_name), key, pressed, 1)

\* -------------------------------------------------------------- actions
\* Game::new, ManagerApplication::new and run: the start scenes are
\* pending, winit calls resumed(), which posts Resumed.
\* Camera::new for the descriptor of one of the players; nothing has been
\* called on the camera.
CameraInitWith(players) ==
    /\ \E player \in players :
          /\ cam = NewCamera(player.descriptor)
          /\ cam_keys = player.keys
    /\ cam_siblings = <<>>
    /\ cam_op = [op |-> "new", ok |-> TRUE]
    /\ cam_rest = None

\* VelocityController::new with one of the speeds; nothing has been called
\* on the controller.
ControllerInitWith(speeds) ==
    /\ \E speed \in speeds : vc = VelocityController(speed)
    /\ vc_op = [op |-> "new", direction |-> "", value |-> FALSE, result |-> <<0, 0>>]
    /\ vc_stopped = None

\* Two of the boxes; nothing has been called on them.
BoxInitWith(boxes) ==
    /\ box_self \in boxes
    /\ box_other \in boxes
    /\ box_op = [op |-> "new", point |-> <<0, 0>>, holds |-> FALSE,
                 correction |-> None]

\* The camera, the controller and the boxes that the orchestrator does not
\* touch.
ComponentsIdle ==
    /\ CameraInitWith({[descriptor |-> CameraR1, keys |-> {}]})
    /\ ControllerInitWith({Scale})
    /\ BoxInitWith({BoundingBox(<<0, 0>>, <<0, 0>>)})

\* The orchestrator before Game::new.
GameIdle ==
    /\ pending_scenes = <<>> /\ active_scenes = <<>> /\ suspended_scenes = <<>>
    /\ window_ids = <<>> /\ cameras = <<>> /\ surfaces = <<>>
    /\ render_scenes = <<>> /\ uniform_buffers = <<>> /\ queue = <<>>
    /\ timer_threads = 0 /\ exited = FALSE /\ panicked = ""
    /\ handled = NoEvent /\ calls = <<>> /\ trace = <<>> /\ created = {}
    /\ delete_requested = FALSE /\ host_events = {}
    /\ timer_interleaves = FALSE

InitWith(start_scenes, events, interleaves) ==
    /\ ComponentsIdle
    /\ \E start \in start_scenes :
          /\ pending_scenes = ScenesOf(start)
          /\ created = Range(start)
    /\ host_events = events
    /\ timer_interleaves = interleaves
    /\ active_scenes = <<>>
    /\ suspended_scenes = <<>>
    /\ window_ids = <<>>
    /\ cameras = <<>>
    /\ surfaces = <<>>
    /\ render_scenes = <<>>
    /\ uniform_buffers = <<>>
    /\ queue = <<Resumed>>
    /\ timer_threads = 0
    /\ exited = FALSE
    /\ panicked = ""
    /\ handled = NoEvent
    /\ calls = <<>>
    /\ trace = <<>>
    /\ delete_requested = FALSE

Init == InitWith(StartScenes, HostEvents, FALSE)

Running == panicked = "" /\ ~exited

\* The event loop hands the oldest queued event of the type to user_event.
Next_event(type) == Running /\ queue # <<>> /\ Head(queue).type = type

\* The ids of the scenes and entities a host emission creates.
CreatedBy(emit) ==
    UNION ({Range(Unwrap(emit[i].new_scenes)) :
               i \in {j \in 1..Len(emit) : IsSome(emit[j].new_scenes)}}
           \cup {Range(EntityIds(Unwrap(emit[i].add_entities)[1])) :
                    i \in {j \in 1..Len(emit) : IsSome(emit[j].add_entities)}})

\* Number of Timer events in the queue.
IsTimer(e) == e.type = "Timer"
QueuedTimers(q) == Len(SelectSeq(q, IsTimer))
\* Number of events in the queue that the host has emitted.
IsHostEvent(e) == e.type = "External" /\ e.event # EmptyEvent
QueuedHost(q) == Len(SelectSeq(q, IsHostEvent))

\* The host may return `emit` now: few host events are waiting, and it
\* creates only scenes it has not created before.
MayEmit(emit) ==
    emit # <<>> =>
        /\ QueuedHost(Tail(queue)) + Len(emit) <= MaxQueuedHost
        /\ CreatedBy(emit) \cap created = {}

\* The sequence with x put in after its first p elements.
InsertAt(s, p, x) == SubSeq(s, 1, p) \o <<x>> \o SubSeq(s, p + 1, Len(s))

\* What the queue may hold once a handler that has sent `out` returns: the
\* waiting events and behind them the events sent, in order; the timer
\* thread, which runs beside the handler, may have posted its Timer between
\* two of them.  (A Timer posted before the first or after the last of them
\* is a step of the timer thread before or after the handler's.)
QueuedAfter(waiting, out) ==
    {waiting \o out}
    \cup (IF timer_interleaves /\ timer_threads > 0
             /\ QueuedTimers(waiting) < MaxQueuedTimers
          THEN {waiting \o InsertAt(out, p, Timer) : p \in 1..(Len(out) - 1)}
          ELSE {})

\* Variant: the events the handler has sent are put in front of the events
\* that were waiting.
CommitSentFirst(g) ==
    /\ UNCHANGED component_vars
    /\ handled' = Head(queue)
    /\ calls' = g.calls
    /\ trace' = g.trace
    /\ IF g.panic # ""
       THEN /\ panicked' = g.panic
            /\ queue' = Tail(queue)
            /\ UNCHANGED <<pending_scenes, active_scenes, suspended_scenes,
                           window_ids, cameras, surfaces, render_scenes,
                           uniform_buffers>>
       ELSE /\ panicked' = ""
            /\ queue' = g.out \o Tail(queue)
            /\ pending_scenes' = g.pending_scenes
            /\ active_scenes' = g.active_scenes
            /\ suspended_scenes' = g.suspended_scenes
            /\ window_ids' = g.window_ids
            /\ cameras' = g.cameras
            /\ surfaces' = g.surfaces
            /\ render_scenes' = g.render_scenes
            /\ uniform_buffers' = g.uniform_buffers

\* The handler has returned (or panicked) with g: its effects take place.
\* A panic ends the process; the fields of Game are then left as they were.
Commit(g) ==
    /\ UNCHANGED component_vars
    /\ handled' = Head(queue)
    /\ calls' = g.calls
    /\ trace' = g.trace
    /\ IF g.panic # ""
       THEN /\ panicked' = g.panic
            /\ queue' = Tail(queue)
            /\ UNCHANGED <<pending_scenes, active_scenes, suspended_scenes,
                           window_ids, cameras, surfaces, render_scenes,
                           uniform_buffers>>
       ELSE /\ panicked' = ""
            /\ queue' \in QueuedAfter(Tail(queue), g.out)
            /\ pending_scenes' = g.pending_scenes
            /\ active_scenes' = g.active_scenes
            /\ suspended_scenes' = g.suspended_scenes
            /\ window_ids' = g.window_ids
            /\ cameras' = g.cameras
            /\ surfaces' = g.surfaces
            /\ render_scenes' = g.render_scenes
            /\ uniform_buffers' = g.uniform_buffers

\* Resumed: activate the start scenes and spawn the timer thread.
HandleResumed ==
    /\ Next_event("Resumed")
    /\ Commit(OnResumed(Cur(<<>>)))
    /\ timer_threads' = IF panicked' = "" THEN timer_threads + 1 ELSE timer_threads
    /\ UNCHANGED <<exited, created, delete_requested,
                   host_events, timer_interleaves>>

\* Variant: the timer thread goes on posting after the event loop closed.
TimerPostAlways ==
    /\ timer_threads > 0
    /\ QueuedTimers(queue) < MaxQueuedTimers
    /\ queue' = Append(queue, Timer)
    /\ UNCHANGED component_vars
    /\ handled' = NoEvent
    /\ calls' = <<>>
    /\ trace' = <<>>
    /\ UNCHANGED <<pending_scenes, active_scenes, suspended_scenes, window_ids,
                   cameras, surfaces, render_scenes, uniform_buffers,
                   timer_threads, exited, panicked, created, delete_requested,
                   host_events, timer_interleaves>>

\* The timer thread posts a Timer event.
TimerPost ==
    /\ Running
    /\ timer_threads > 0
    /\ QueuedTimers(queue) < MaxQueuedTimers
    /\ queue' = Append(queue, Timer)
    /\ UNCHANGED component_vars
    /\ handled' = NoEvent
    /\ calls' = <<>>
    /\ trace' = <<>>
    /\ UNCHANGED <<pending_scenes, active_scenes, suspended_scenes, window_ids,
                   cameras, surfaces, render_scenes, uniform_buffers,
                   timer_threads, exited, panicked, created, delete_requested,
                   host_events, timer_interleaves>>

\* ManagerApplication::user_event on RequestNewWindow: create the window;
\* Game::user_event ignores the event.
HandleRequestNewWindow ==
    /\ Next_event("RequestNewWindow")
    /\ Commit(create_window(Cur(<<>>), Head(queue).name))
    /\ UNCHANGED <<timer_threads, exited, created, delete_requested,
                   host_events, timer_interleaves>>

HandleNewWindow ==
    /\ Next_event("NewWindow")
    /\ Commit(OnNewWindow(Cur(<<>>), Head(queue).id, Head(queue).name))
    /\ UNCHANGED <<timer_threads, exited, created, delete_requested,
                   host_events, timer_interleaves>>

\* ManagerApplication::user_event on RequestNewRenderScene: the renderer
\* adds the render scene, NewRenderScene is posted.
HandleRequestNewRenderScene ==
    /\ Next_event("RequestNewRenderScene")
    /\ LET e == Head(queue)
           g == add_render_scene(Cur(<<>>), e.window, e.render_scene, e.uniforms)
       IN  Commit(IF g.panic # "" THEN g
                  ELSE send_event(g, NewRenderScene(e.render_scene)))
    /\ UNCHANGED <<timer_threads, exited, created, delete_requested,
                   host_events, timer_interleaves>>

HandleNewRenderScene ==
    /\ Next_event("NewRenderScene")
    /\ Commit(OnNewRenderScene(Cur(<<>>), Head(queue).render_scene))
    /\ UNCHANGED <<timer_threads, exited, created, delete_requested,
                   host_events, timer_interleaves>>

\* ManagerApplication::user_event on RenderUpdate: the renderer takes the
\* buffers, the event is not passed to the Game.
HandleRenderUpdate ==
    /\ Running
    /\ queue # <<>>
    /\ is_render_update(Head(queue))
    /\ Commit(Expect(Cur(<<>>), consume_render_update(Head(queue)),
                     "Test if it is a render update, before trying to consume the event as one",
                     Call(Cur(<<>>), "update_scene", 0, 0,
                          Unwrap(consume_render_update(Head(queue))))))
    /\ UNCHANGED <<timer_threads, exited, created, delete_requested,
                   host_events, timer_interleaves>>

\* Timer: the first entity update of the tick returns the host's emission.
HandleTimer ==
    /\ Next_event("Timer")
    /\ \E emit \in HostEmits :
          /\ MayEmit(emit)
          /\ LET g == OnTimer(Cur(emit))
             IN  /\ g.emit = <<>>
                 /\ Commit(g)
          /\ created' = created \cup CreatedBy(emit)
    /\ UNCHANGED <<timer_threads, exited, delete_requested, host_events, timer_interleaves>>

\* External: the routing rules; handle_event of the target entity or of
\* the State returns the host's emission.
HandleExternal ==
    /\ Next_event("External")
    /\ \E emit \in HostEmits :
          /\ MayEmit(emit)
          /\ LET g == OnExternal(Cur(emit), Head(queue).event)
             IN  /\ g.emit = <<>>
                 /\ Commit(g)
          /\ created' = created \cup CreatedBy(emit)
    /\ delete_requested' = (delete_requested \/ IsSome(Head(queue).event.delete_scene))
    /\ UNCHANGED <<timer_threads, exited, host_events, timer_interleaves>>

\* ManagerApplication::user_event on EndGame: is_quit, the event loop exits
\* and the event does not reach Game::user_event.
HandleEndGame ==
    /\ Next_event("EndGame")
    /\ exited' = TRUE
    /\ queue' = Tail(queue)
    /\ UNCHANGED component_vars
    /\ handled' = Head(queue)
    /\ calls' = <<>>
    /\ trace' = <<>>
    /\ UNCHANGED <<pending_scenes, active_scenes, suspended_scenes, window_ids,
                   cameras, surfaces, render_scenes, uniform_buffers,
                   timer_threads, panicked, created, delete_requested,
                   host_events, timer_interleaves>>

\* The timer thread's send_event returns Err once the event loop is closed:
\* the thread breaks out of its loop and ends.
TimerExit ==
    /\ exited
    /\ timer_threads > 0
    /\ timer_threads' = timer_threads - 1
    /\ UNCHANGED component_vars
    /\ handled' = NoEvent
    /\ calls' = <<>>
    /\ trace' = <<>>
    /\ UNCHANGED <<pending_scenes, active_scenes, suspended_scenes, window_ids,
                   cameras, surfaces, render_scenes, uniform_buffers, queue,
                   exited, panicked, created, delete_requested, host_events, timer_interleaves>>

\* The keys the platform delivers.
KeyCodes == {"KeyD"}

\* A key is pressed or released on one of the windows.
KeyboardInput ==
    /\ Running
    /\ \E i \in 1..Len(surfaces), key \in KeyCodes, pressed \in BOOLEAN :
          LET g == OnKeyboardInput(Cur(<<>>), surfaces[i], key, pressed)
          IN  cameras' = g.cameras
    /\ UNCHANGED component_vars
    /\ handled' = NoEvent
    /\ calls' = <<>>
    /\ trace' = <<>>
    /\ UNCHANGED <<pending_scenes, active_scenes, suspended_scenes, window_ids,
                   surfaces, render_scenes, uniform_buffers, queue,
                   timer_threads, exited, panicked, created, delete_requested,
                   host_events, timer_interleaves>>

Next ==
    \/ HandleResumed
    \/ TimerPost
    \/ HandleRequestNewWindow
    \/ HandleNewWindow
    \/ HandleRequestNewRenderScene
    \/ HandleNewRenderScene
    \/ HandleRenderUpdate
    \/ HandleTimer
    \/ HandleExternal
    \/ KeyboardInput

Spec == Init /\ [][Next]_vars

\* The game of a host that emits the routing events, end-game among them.
RoutingInit == InitWith(RoutingStartScenes, RoutingEvents, TRUE)

RoutingNext ==
    \/ HandleResumed
    \/ TimerPost
    \/ HandleRequestNewWindow
    \/ HandleNewWindow
    \/ HandleRequestNewRenderScene
    \/ HandleNewRenderScene
    \/ HandleRenderUpdate
    \/ HandleTimer
    \/ HandleExternal
    \/ HandleEndGame
    \/ TimerExit
    \/ KeyboardInput

RoutingSpec == RoutingInit /\ [][RoutingNext]_vars

\* ------------------------------------ events that match several rules
\* Events of a host type whose classification queries overlap: a suspend
\* request that is a delete-entity request too (it deletes the entity the
\* camera of the scene follows), a new-scenes request and an
\* activate request that end the game, an add-entities request that
\* suspends, a render-one-scene request that carries an entity event.
SuspendAndDeleteEntity ==
    [EmptyEvent EXCEPT !.suspend = Some("A"), !.delete_entity = Some(<<"t", "A">>)]
NewScenesAndEndGame ==
    [EmptyEvent EXCEPT !.new_scenes = Some(<<3>>), !.end_game = TRUE]
ActivateAndEndGame ==
    [EmptyEvent EXCEPT !.activate = Some("A"), !.end_game = TRUE]
AddEntitiesAndSuspend ==
    [EmptyEvent EXCEPT !.add_entities = Some(<<<<Entity(14, "c", 0)>>, "A">>),
                       !.suspend = Some("A")]
RenderSceneAndEntityEvent ==
    [EmptyEvent EXCEPT !.render_scene = Some("A"),
                       !.entity_event = Some(<<"c", "hit">>)]

OverlappingEvents ==
    {SuspendAndDeleteEntity, NewScenesAndEndGame, ActivateAndEndGame,
     AddEntitiesAndSuspend, RenderSceneAndEntityEvent}

\* The game of a host that emits them.
OverlappingInit == InitWith({<<1>>}, OverlappingEvents, FALSE)

OverlappingSpec == OverlappingInit /\ [][RoutingNext]_vars

\* ------------------------------------------------ a camera on its own
\* The camera of the end-to-end scenario: max_offset 50, ten acceleration
\* steps, speed 100, following "t".
CameraEndToEnd ==
    [name |-> "cam", view_size |-> <<4 * Scale, 4 * Scale>>, speed |-> 100 * Scale,
     acceleration_steps |-> 10, target_entity |-> "t", bound_entity |-> None,
     max_offset_position |-> 50 * Scale]

\* A camera that reaches its speed of 1.0 in two steps, may lead its target
\* by 1.0 and is kept inside the entity "b".
CameraBound ==
    [name |-> "cam", view_size |-> <<4 * Scale, 4 * Scale>>, speed |-> Scale,
     acceleration_steps |-> 2, target_entity |-> "t", bound_entity |-> Some("b"),
     max_offset_position |-> Scale]

\* The players: one steers in all directions, one plays the end-to-end
\* scenario, which uses the Right key only.
CameraPlayers ==
    {[descriptor |-> CameraR1, keys |-> {"KeyW", "KeyA", "KeyS", "KeyD"}],
     [descriptor |-> CameraBound, keys |-> {"KeyW", "KeyA", "KeyS", "KeyD"}],
     [descriptor |-> CameraEndToEnd, keys |-> {"KeyD"}]}

\* The entity lists an update is called with: without the target, with the
\* target, with the target and the bound entity (5.0 wide and high).
SiblingLists ==
    {<< Entity(12, "c", 0) >>,
     << Entity(12, "c", 0), Entity(11, "t", 1) >>,
     << Entity(11, "t", 1),
        [Entity(15, "b", 0) EXCEPT !.size = <<5 * Scale, 5 * Scale>>] >>}

CameraInit ==
    /\ CameraInitWith(CameraPlayers)
    /\ ControllerInitWith({Scale})
    /\ BoxInitWith({BoundingBox(<<0, 0>>, <<0, 0>>)})
    /\ GameIdle

\* Camera::update with one of the entity lists.
CameraTickWith(lists) ==
    /\ \E entities \in lists :
          /\ cam' = CameraUpdate(cam, entities).camera
          /\ cam_op' = [op |-> "update", ok |-> CameraUpdate(cam, entities).ok]
          /\ cam_siblings' = entities
    /\ UNCHANGED <<cam_keys, cam_rest, game_vars, controller_vars, box_vars>>

CameraTick == CameraTickWith(SiblingLists)

\* Camera::handle_key_input with a key pressed or released.
CameraKey ==
    /\ \E key \in cam_keys, pressed \in BOOLEAN :
          /\ cam' = CameraHandleKeyInput(cam, key, pressed)
          /\ cam_op' = [op |-> "key", ok |-> TRUE]
          /\ cam_rest' = IF pressed THEN None ELSE cam_rest
    /\ UNCHANGED <<cam_siblings, cam_keys, game_vars, controller_vars, box_vars>>

\* Camera::reset_offset
CameraReset ==
    /\ cam' = reset_offset(cam)
    /\ cam_op' = [op |-> "reset", ok |-> TRUE]
    /\ cam_rest' = Some(cam.offset_position # <<0, 0>>
                          /\ get_velocity(cam.velocity) # <<0, 0>>)
    /\ UNCHANGED <<cam_siblings, cam_keys, game_vars, controller_vars, box_vars>>

CameraNext ==
    \/ CameraTick
    \/ CameraKey
    \/ CameraReset

CameraSpec == CameraInit /\ [][CameraNext]_vars

\* ------------------------------------- a bound camera far from the origin
\* The entity lists of a level that lies 2^24 units from the origin, where
\* neighbouring f32 values are two units apart: the target at or beside the
\* anchor of the bound entity, which is 5.0 wide and high; a level at the
\* origin; a level whose bound entity is missing.
DistantSiblingLists ==
    {<< [Entity(11, "t", 1) EXCEPT !.pos = <<F32_EXACT_BELOW + tx, 0>>],
        [Entity(15, "b", 0) EXCEPT !.pos = <<F32_EXACT_BELOW + bx, 0>>,
                                   !.size = <<5 * Scale, 5 * Scale>>] >> :
        tx \in {0, 2 * Scale}, bx \in {0, 2}}
    \cup {<< Entity(11, "t", 1),
             [Entity(15, "b", 0) EXCEPT !.size = <<5 * Scale, 5 * Scale>>] >>,
          << Entity(11, "t", 1) >>}

DistantCameraInit ==
    /\ CameraInitWith({[descriptor |-> CameraBound, keys |-> {"KeyA", "KeyD"}]})
    /\ ControllerInitWith({Scale})
    /\ BoxInitWith({BoundingBox(<<0, 0>>, <<0, 0>>)})
    /\ GameIdle

CameraTickDistant == CameraTickWith(DistantSiblingLists)

DistantCameraNext ==
    \/ CameraTickDistant
    \/ CameraKey
    \/ CameraReset

DistantCameraSpec == DistantCameraInit /\ [][DistantCameraNext]_vars

\* ------------------------------------- a velocity controller on its own
Directions == {"Up", "Right", "Down", "Left"}

\* The speeds a controller is built with: 1.0, 2.0 and 3.0.
ControllerSpeeds == {Scale, 2 * Scale, 3 * Scale}

ControllerInit ==
    /\ ControllerInitWith(ControllerSpeeds)
    /\ CameraInitWith({[descriptor |-> CameraR1, keys |-> {}]})
    /\ BoxInitWith({BoundingBox(<<0, 0>>, <<0, 0>>)})
    /\ GameIdle

\* VelocityController::stop_movement
ControllerStop ==
    /\ vc' = stop_movement(vc)
    /\ vc_op' = [op |-> "stop_movement", direction |-> "", value |-> FALSE,
                 result |-> <<0, 0>>]
    /\ vc_stopped' = Some(get_velocity(vc) # <<0, 0>>)
    /\ UNCHANGED <<game_vars, camera_vars, box_vars>>

\* VelocityController::set_direction
ControllerSet ==
    /\ \E direction \in Directions, value \in BOOLEAN :
          /\ vc' = set_direction(vc, direction, value)
          /\ vc_op' = [op |-> "set_direction", direction |-> direction,
                       value |-> value, result |-> <<0, 0>>]
          /\ vc_stopped' = IF value THEN None ELSE vc_stopped
    /\ UNCHANGED <<game_vars, camera_vars, box_vars>>

\* VelocityController::get_velocity takes &self: the controller stays as
\* it is, the vector is returned.
ControllerGet ==
    /\ vc_op' = [op |-> "get_velocity", direction |-> "", value |-> FALSE,
                 result |-> get_velocity(vc)]
    /\ UNCHANGED <<vc, vc_stopped, game_vars, camera_vars, box_vars>>

ControllerNext ==
    \/ ControllerStop
    \/ ControllerSet
    \/ ControllerGet

ControllerSpec == ControllerInit /\ [][ControllerNext]_vars

\* ----------------------------------------------- boxes on their own
\* Half the width and height of the largest box, in units of 1/Scale.
MaxHalfSize == 2

\* The first count of units from which on an f32 no longer holds every
\* count: 2^24.
Far == F32_EXACT_BELOW

\* The boxes: anchors near the origin and anchors where neighbouring f32
\* values are two units apart, widths and heights 2, .. 2 * MaxHalfSize.
Boxes ==
    {BoundingBox(<<x, y>>, <<2 * w, 2 * h>>) :
        x \in {0, 2, 4, Far, Far + 2}, y \in {0, 2},
        w \in 1..MaxHalfSize, h \in 1..MaxHalfSize}

\* The points a box is asked about: its centre, its corners, the middles
\* of its sides and the points one unit outside of those, as far as they
\* are f32 values.
PointsAround(box) ==
    {point \in {<<box.anchor[1] + i * (box.size[1] \div 2 + d),
                  box.anchor[2] + j * (box.size[2] \div 2 + d)>> :
                    i \in {-1, 0, 1}, j \in {-1, 0, 1}, d \in {0, 1}} :
        F32(point[1]) = point[1] /\ F32(point[2]) = point[2]}

BoxInit ==
    /\ BoxInitWith(Boxes)
    /\ CameraInitWith({[descriptor |-> CameraR1, keys |-> {}]})
    /\ ControllerInitWith({Scale})
    /\ GameIdle

\* The record of a call on the boxes.
BoxCall(op, point, holds, correction) ==
    [op |-> op, point |-> point, holds |-> holds, correction |-> correction]

\* box_self.contains_point(point)
BoxContainsPoint ==
    /\ \E point \in PointsAround(box_self) :
          box_op' = BoxCall("contains_point", point,
                            contains_point(box_self, point), None)
    /\ UNCHANGED <<box_self, box_other, game_vars, camera_vars, controller_vars>>

\* box_self.contains_box(box_other)
BoxContainsBox ==
    /\ box_op' = BoxCall("contains_box", <<0, 0>>,
                         contains_box(box_self, box_other), None)
    /\ UNCHANGED <<box_self, box_other, game_vars, camera_vars, controller_vars>>

\* box_self.intersects(box_other)
BoxIntersects ==
    /\ box_op' = BoxCall("intersects", <<0, 0>>,
                         intersects(box_self, box_other), None)
    /\ UNCHANGED <<box_self, box_other, game_vars, camera_vars, controller_vars>>

\* box_self.clamp_box_inside(box_other)
BoxClamp ==
    /\ box_op' = BoxCall("clamp_box_inside", <<0, 0>>, FALSE,
                         clamp_box_inside(box_self, box_other))
    /\ UNCHANGED <<box_self, box_other, game_vars, camera_vars, controller_vars>>

\* The caller takes the correction: box_other is moved to the anchor that
\* clamp_box_inside has returned (Camera::update does so with its bounding
\* box); the anchor it had is kept in the record.
BoxMove ==
    /\ box_op.op = "clamp_box_inside"
    /\ IsSome(box_op.correction)
    /\ box_other' = BoundingBox(Unwrap(box_op.correction), box_other.size)
    /\ box_op' = BoxCall("moved", box_other.anchor, FALSE, None)
    /\ UNCHANGED <<box_self, game_vars, camera_vars, controller_vars>>

BoxNext ==
    \/ BoxContainsPoint
    \/ BoxContainsBox
    \/ BoxIntersects
    \/ BoxClamp
    \/ BoxMove

BoxSpec == BoxInit /\ [][BoxNext]_vars

\* ------------------------------------------------------------ properties
\* Every scene the Game holds, in the order pending, active, suspended.
AllScenes == pending_scenes \o active_scenes \o suspended_scenes

\* This step dispatches the oldest queued event, which is of the type, and
\* the handler returns without a panic.
Dispatches(type) ==
    /\ Next_event(type)
    /\ handled' = Head(queue)
    /\ panicked' = ""

\* The events the handler of this step has sent.
Sent == SubSeq(queue', Len(queue), Len(queue'))

NamesUnique ==
    \A i, j \in 1..Len(AllScenes) : i # j => AllScenes[i].name # AllScenes[j].name

\* C1: no two scenes held in pending_scenes, active_scenes and
\* suspended_scenes together have the same name.
C1_SceneNamesUnique == NamesUnique

\* This step runs activate_scenes: it dispatches Resumed or a new-scenes request.
RunsActivateScenes ==
    \/ Dispatches("Resumed")
    \/ Dispatches("External") /\ IsSome(Head(queue).event.new_scenes)

\* The pending scenes activate_scenes works on in this step.
PendingAtActivation ==
    IF Head(queue).type = "External"
    THEN pending_scenes \o ScenesOf(Unwrap(Head(queue).event.new_scenes))
    ELSE pending_scenes

NamedLikeActive(scene) == scene.name \in Names(active_scenes)
NotNamedLikeActive(scene) == ~NamedLikeActive(scene)
HasItsWindow(scene) == IsSome(FindWindowId(window_ids, scene.target_window))
KeptWithWindow(scene) == NotNamedLikeActive(scene) /\ HasItsWindow(scene)
KeptWithoutWindow(scene) == NotNamedLikeActive(scene) /\ ~HasItsWindow(scene)
IsRenderSceneRequest(e) == e.type = "RequestNewRenderScene"
IsWindowRequest(e) == e.type = "RequestNewWindow"

\* C2: when activate_scenes runs, every pending scene named like an active
\* scene is removed from pending_scenes and not promoted, active_scenes is
\* unchanged, and the requests sent are exactly those of the other pending
\* scenes: one render-scene request per kept scene whose window exists, and
\* window requests only for windows a kept scene is waiting for.
C2_DuplicateOfActiveDiscarded ==
    [][RunsActivateScenes =>
        /\ pending_scenes' = SelectSeq(PendingAtActivation, NotNamedLikeActive)
        /\ active_scenes' = active_scenes
        /\ suspended_scenes' = suspended_scenes
        /\ Len(SelectSeq(Sent, IsRenderSceneRequest))
             = Len(SelectSeq(PendingAtActivation, KeptWithWindow))
        /\ \A k \in 1..Len(Sent) :
             /\ IsRenderSceneRequest(Sent[k]) =>
                  \E i \in 1..Len(PendingAtActivation) :
                     /\ KeptWithWindow(PendingAtActivation[i])
                     /\ PendingAtActivation[i].render_scene = Sent[k].render_scene
             /\ IsWindowRequest(Sent[k]) =>
                  \E i \in 1..Len(PendingAtActivation) :
                     /\ KeptWithoutWindow(PendingAtActivation[i])
                     /\ PendingAtActivation[i].target_window = Sent[k].name
             /\ IsRenderSceneRequest(Sent[k]) \/ IsWindowRequest(Sent[k])
    ]_vars

\* A new-scenes request was dispatched whose scene 1 is named like the
\* active scene 2: scene 1 is gone, scene 3 of the same request is kept.
C2_Witness ==
    /\ handled.type = "External"
    /\ handled.event.new_scenes = Some(<<3, 1>>)
    /\ 2 \in Ids(active_scenes)
    /\ Ids(pending_scenes) = {3}
    /\ 1 \notin Ids(AllScenes)

\* C3: on a Timer tick, update is not called on an entity of a scene that
\* is in suspended_scenes.
C3_SuspendedNotUpdated ==
    handled.type = "Timer" =>
        \A k \in 1..Len(calls) :
            calls[k].op = "update" => calls[k].scene \notin Ids(suspended_scenes)

\* C4: a scene is in active_scenes only after its own target window was
\* recorded in window_ids (stated for the states in which scene names are
\* unique, so that it does not rest on C1).
C4_PromotedAfterOwnWindow ==
    NamesUnique =>
        \A i \in 1..Len(active_scenes) :
            IsSome(FindWindowId(window_ids, active_scenes[i].target_window))

\* The scene is eligible for activation: its window is described in the
\* resources and no other scene the Game holds has its name.
Eligible(scene) ==
    /\ IsSome(get_window(scene.target_window))
    /\ \A i \in 1..Len(AllScenes) :
          AllScenes[i].name = scene.name => AllScenes[i].id = scene.id

\* C5, as far as a finite run can refute it: unless a delete request was
\* dispatched, the process does not end in a panic while an eligible scene
\* is still pending (such a scene is never in active_scenes).
C5_EligiblePendingNotStranded ==
    (panicked # "" /\ ~delete_requested) =>
        \A i \in 1..Len(pending_scenes) : ~Eligible(pending_scenes[i])

\* Every camera registered for the scene name has a zero offset and no
\* direction set.
CamerasAtRest(cams, scene) ==
    \A i \in 1..Len(cams) :
        cams[i].scene = scene =>
            /\ cams[i].camera.offset_position = <<0, 0>>
            /\ ~cams[i].camera.velocity.up /\ ~cams[i].camera.velocity.right
            /\ ~cams[i].camera.velocity.down /\ ~cams[i].camera.velocity.left

\* This step dispatches a suspend request naming a scene in active_scenes.
SuspendsActiveScene ==
    /\ Dispatches("External")
    /\ IsSome(Head(queue).event.suspend)
    /\ Unwrap(Head(queue).event.suspend) \in Names(active_scenes)

\* C6: after a suspend request naming a scene S of active_scenes is
\* processed, S is in suspended_scenes and no longer in active_scenes, and
\* every camera registered for S is at rest.
C6_SuspendedSceneLeavesActive ==
    [][SuspendsActiveScene =>
        /\ Unwrap(Head(queue).event.suspend) \in Names(suspended_scenes')
        /\ Unwrap(Head(queue).event.suspend) \notin Names(active_scenes')
        /\ CamerasAtRest(cameras', Unwrap(Head(queue).event.suspend))
    ]_vars

\* C7: active_scenes is sorted by ascending z_index.
C7_ActiveSortedByZIndex ==
    \A i \in 1..(Len(active_scenes) - 1) :
        active_scenes[i].z_index <= active_scenes[i + 1].z_index

\* Scene 3 (z_index 1) was promoted while the start scene 1 (z_index 2)
\* was active, and stands in front of it.
C7_Witness ==
    /\ handled.type = "NewRenderScene"
    /\ panicked = ""
    /\ created = {1, 3}
    /\ Len(active_scenes) = 2
    /\ active_scenes[1].id = 3
    /\ active_scenes[2].id = 1

\* This step dispatches a delete-scene request naming a scene that is in
\* active_scenes or suspended_scenes.
DeletesHeldScene ==
    /\ Dispatches("External")
    /\ IsSome(Head(queue).event.delete_scene)
    /\ Unwrap(Head(queue).event.delete_scene)
          \in Names(active_scenes) \cup Names(suspended_scenes)

\* C8: after a delete-scene request naming S is processed, S is in neither
\* active_scenes nor suspended_scenes (so no later tick updates or renders
\* it), the renderer was told exactly once to remove a render scene, and
\* the cameras list has no entry for S.
C8_DeletedSceneIsGone ==
    [][DeletesHeldScene =>
        /\ Unwrap(Head(queue).event.delete_scene) \notin Names(active_scenes')
        /\ Unwrap(Head(queue).event.delete_scene) \notin Names(suspended_scenes')
        /\ Cardinality({k \in 1..Len(calls') :
                           calls'[k].op = "remove_render_scene"}) = 1
        /\ \A i \in 1..Len(cameras') :
              cameras'[i].scene # Unwrap(Head(queue).event.delete_scene)
    ]_vars

\* The scenes a delete-entity request can address.
HeldScenes == active_scenes \o suspended_scenes

\* This step dispatches a delete-entity request naming a scene that is in
\* active_scenes or suspended_scenes.
DeletesEntityOfHeldScene ==
    /\ Dispatches("External")
    /\ IsSome(Head(queue).event.delete_entity)
    /\ Unwrap(Head(queue).event.delete_entity)[2] \in Names(HeldScenes)

\* The delete_child_entity(name) calls of this step on the entity.
NotifiedOf(scene, entity, name) ==
    {k \in 1..Len(calls') :
        /\ calls'[k].op = "delete_child_entity"
        /\ calls'[k].scene = scene
        /\ calls'[k].entity = entity
        /\ calls'[k].arg = name}

\* The entities without those of the name, in their order.
Without(entities, name) ==
    LET Other(e) == e.name # name
    IN  SelectSeq(entities, Other)

\* C9: a delete-entity request (N, S) removes every entity named N from S,
\* keeps the order of the others, calls delete_child_entity(N) exactly once
\* on every entity that remains in S and on no entity of another scene.
C9_DeleteEntityBroadcast ==
    [][DeletesEntityOfHeldScene =>
        /\ Len(HeldScenes') = Len(HeldScenes)
        /\ \A i \in 1..Len(HeldScenes) :
              /\ HeldScenes'[i].id = HeldScenes[i].id
              /\ HeldScenes'[i].entities =
                    IF HeldScenes[i].name = Unwrap(Head(queue).event.delete_entity)[2]
                    THEN Without(HeldScenes[i].entities,
                                 Unwrap(Head(queue).event.delete_entity)[1])
                    ELSE HeldScenes[i].entities
              /\ \A j \in 1..Len(HeldScenes'[i].entities) :
                    Cardinality(NotifiedOf(HeldScenes[i].id,
                                           HeldScenes'[i].entities[j].id,
                                           Unwrap(Head(queue).event.delete_entity)[1]))
                      = IF HeldScenes[i].name = Unwrap(Head(queue).event.delete_entity)[2]
                        THEN 1 ELSE 0
        /\ \A k \in 1..Len(calls') :
              calls'[k].op = "delete_child_entity" =>
                 \E i \in 1..Len(HeldScenes) :
                    /\ HeldScenes[i].id = calls'[k].scene
                    /\ HeldScenes[i].name = Unwrap(Head(queue).event.delete_entity)[2]
    ]_vars

\* The update calls of the last tick on the entity.
UpdatesOf(scene, entity) ==
    {k \in 1..Len(calls) :
        /\ calls[k].op = "update"
        /\ calls[k].scene = scene
        /\ calls[k].entity = entity}

\* C10: during a Timer tick update is called exactly once on each entity
\* of every active scene (and at most once on any entity), and the
\* siblings passed to an entity of a scene with n entities are the n - 1
\* other entities of that scene, each once, never the entity itself.
C10_UpdatedOnceWithSiblings ==
    (handled.type = "Timer" /\ panicked = "") =>
        /\ \A i \in 1..Len(active_scenes) :
              \A j \in 1..Len(active_scenes[i].entities) :
                 Cardinality(UpdatesOf(active_scenes[i].id,
                                       active_scenes[i].entities[j].id)) = 1
        /\ \A k \in 1..Len(calls) :
              calls[k].op = "update" =>
                 \E i \in 1..Len(HeldScenes) :
                    /\ HeldScenes[i].id = calls[k].scene
                    /\ Cardinality(UpdatesOf(calls[k].scene, calls[k].entity)) = 1
                    /\ Len(calls[k].arg) = Len(HeldScenes[i].entities) - 1
                    /\ Range(calls[k].arg) =
                          Range(EntityIds(HeldScenes[i].entities)) \ {calls[k].entity}

\* A tick has updated the three entities of the active scene 1.
C10_Witness ==
    /\ handled.type = "Timer"
    /\ panicked = ""
    /\ \E i \in 1..Len(active_scenes) :
          /\ active_scenes[i].id = 1
          /\ Len(active_scenes[i].entities) = 3
          /\ \A j \in 1..3 :
                Cardinality(UpdatesOf(1, active_scenes[i].entities[j].id)) = 1

\* This step dispatches an entity-targeted event.
DispatchesEntityEvent ==
    /\ Dispatches("External")
    /\ IsSome(Head(queue).event.entity_event)

HasEntityNamed(scene, name) ==
    \E j \in 1..Len(scene.entities) : scene.entities[j].name = name

\* The handle_event calls of this step.
HandleEventCalls == {k \in 1..Len(calls') : calls'[k].op = "handle_event"}

\* Entity j of active scene i is the first entity with the name in the
\* first active scene that has one.
IsFirstTarget(i, j, name) ==
    /\ active_scenes[i].entities[j].name = name
    /\ \A j2 \in 1..(j - 1) : active_scenes[i].entities[j2].name # name
    /\ \A i2 \in 1..(i - 1) : ~HasEntityNamed(active_scenes[i2], name)

\* C11: an entity-targeted event is delivered by handle_event to exactly
\* one entity, the first entity with the target name in the first active
\* scene that has one; when no active scene has one, handle_event is called
\* on nothing, no event is sent and the scenes and cameras stay as they are.
C11_EntityEventToFirstActiveTarget ==
    [][DispatchesEntityEvent =>
        IF \E i \in 1..Len(active_scenes) :
              HasEntityNamed(active_scenes[i], Unwrap(Head(queue).event.entity_event)[1])
        THEN /\ Cardinality(HandleEventCalls) = 1
             /\ \A k \in HandleEventCalls :
                   \E i \in 1..Len(active_scenes) :
                      \E j \in 1..Len(active_scenes[i].entities) :
                         /\ IsFirstTarget(i, j, Unwrap(Head(queue).event.entity_event)[1])
                         /\ calls'[k].scene = active_scenes[i].id
                         /\ calls'[k].entity = active_scenes[i].entities[j].id
                         /\ calls'[k].arg = Unwrap(Head(queue).event.entity_event)[2]
        ELSE /\ calls' = <<>>
             /\ Sent = <<>>
             /\ UNCHANGED <<pending_scenes, active_scenes, suspended_scenes,
                            window_ids, cameras, surfaces, render_scenes,
                            uniform_buffers, exited>>
    ]_vars

\* The event for "c" went to entity 12 of scene 1, the second active scene:
\* scene 3, in front of it, has no entity of that name.
C11_Witness ==
    /\ handled.type = "External"
    /\ IsSome(handled.event.entity_event)
    /\ panicked = ""
    /\ Len(active_scenes) = 2
    /\ active_scenes[1].id = 3
    /\ \E k \in 1..Len(calls) :
          /\ calls[k].op = "handle_event"
          /\ calls[k].scene = 1
          /\ calls[k].entity = 12

\* The event matches none of the routing rules.
MatchesNoRule(event) ==
    /\ event.new_scenes = None /\ event.add_entities = None
    /\ event.set_visibility = None /\ event.suspend = None
    /\ event.activate = None /\ event.delete_scene = None
    /\ event.update_uniform = None /\ event.delete_entity = None
    /\ event.render_scene = None /\ ~event.end_game
    /\ event.entity_event = None

\* The handler of this step has called State::handle_event.
StateHandlesEvent ==
    \E k \in 1..Len(calls') : calls'[k].op = "state_handle_event"

\* C12: State::handle_event is invoked for an external event if and only
\* if the event matches none of the routing rules.
C12_StateHandlesOnlyUnroutedEvents ==
    [][Dispatches("External") =>
        (StateHandlesEvent <=> MatchesNoRule(Head(queue).event))]_vars

\* This step dispatches an end-game request.
DispatchesEndGameRequest ==
    /\ Dispatches("External")
    /\ Head(queue).event.end_game

\* This step takes the EndGame event off the queue.
DequeuesEndGame ==
    /\ Next_event("EndGame")
    /\ queue' = Tail(queue)

Processes(type) ==
    /\ Next_event(type)
    /\ handled' = Head(queue)

\* The scene name of an add-entities, set-visibility or delete-entity
\* request, None for any other event.
SceneLookedUp(event) ==
    IF IsSome(event.add_entities) THEN Some(Unwrap(event.add_entities)[2])
    ELSE IF IsSome(event.set_visibility) THEN Some(Unwrap(event.set_visibility)[1])
    ELSE IF IsSome(event.delete_entity) THEN Some(Unwrap(event.delete_entity)[2])
    ELSE None

\* This step processes such a request naming a scene that is neither in
\* active_scenes nor in suspended_scenes.
LooksUpUnheldScene ==
    /\ Processes("External")
    /\ IsSome(SceneLookedUp(Head(queue).event))
    /\ Unwrap(SceneLookedUp(Head(queue).event)) \notin Names(HeldScenes)

\* C14: an add-entities, set-visibility or delete-entity request naming a
\* scene that is neither active nor suspended is dropped: the orchestrator
\* does not abort, and the scene lists, entity lists and cameras are
\* unchanged.
C14_UnknownSceneRequestDropped ==
    [][LooksUpUnheldScene =>
        /\ panicked' = ""
        /\ UNCHANGED <<pending_scenes, active_scenes, suspended_scenes, cameras>>
    ]_vars

\* This step processes a suspend request naming a scene that is not active,
\* an activate request naming a scene that is not suspended, or a
\* render-one-scene request naming a scene that is not active.
RequestsAbsentScene ==
    /\ Processes("External")
    /\ \/ /\ IsSome(Head(queue).event.suspend)
          /\ Unwrap(Head(queue).event.suspend) \notin Names(active_scenes)
       \/ /\ IsSome(Head(queue).event.activate)
          /\ Unwrap(Head(queue).event.activate) \notin Names(suspended_scenes)
       \/ /\ IsSome(Head(queue).event.render_scene)
          /\ Unwrap(Head(queue).event.render_scene) \notin Names(active_scenes)

\* C15: such a request leaves pending_scenes, active_scenes,
\* suspended_scenes and every camera unchanged, emits no event and does not
\* abort.
C15_AbsentSceneRequestHasNoEffect ==
    [][RequestsAbsentScene =>
        /\ panicked' = ""
        /\ Sent = <<>>
        /\ UNCHANGED <<pending_scenes, active_scenes, suspended_scenes, cameras>>
    ]_vars

\* ------------------------------------------------ the camera on its own
\* This step is a Camera::update.
UpdatesCamera == cam_op'.op = "update"

NoSiblingNamed(entities, name) ==
    \A i \in 1..Len(entities) : entities[i].name # name

\* C16: a camera update with no sibling named target_entity leaves the
\* position, the offset and the direction flags (the whole camera) as they
\* were and returns without completing (no event).
C16_UpdateWithoutTargetChangesNothing ==
    [][(UpdatesCamera /\ NoSiblingNamed(cam_siblings', cam.target_entity)) =>
        /\ cam' = cam
        /\ ~cam_op'.ok
    ]_vars

\* A camera that was moving (offset and velocity not zero) has been updated
\* with entities that do not include its target.
C16_Witness ==
    /\ cam_op = [op |-> "update", ok |-> FALSE]
    /\ NoSiblingNamed(cam_siblings, cam.target_entity)
    /\ cam.offset_position # <<0, 0>>
    /\ get_velocity(cam.velocity) # <<0, 0>>

C18_ResetOffsetStopsDrift ==
    IsSome(cam_rest) =>
        /\ cam.offset_position = <<0, 0>>
        /\ get_velocity(cam.velocity) = <<0, 0>>

\* A camera that was moving was reset and has completed an update since.
C18_Witness ==
    /\ cam_rest = Some(TRUE)
    /\ cam_op = [op |-> "update", ok |-> TRUE]

\* The camera of the end-to-end scenario: max_offset 50, speed 100 in ten
\* steps (10 per tick).
IsEndToEnd ==
    /\ cam.max_offset = 50 * Scale
    /\ cam.velocity.speed = 10 * Scale

TargetAtOrigin(entities) ==
    \E i \in 1..Len(entities) :
        entities[i].name = "t" /\ EntityPosition(entities[i]) = <<0, 0>>

OnlyRightHeld(v) == v.right /\ ~v.left /\ ~v.up /\ ~v.down
NothingHeld(v) == ~v.right /\ ~v.left /\ ~v.up /\ ~v.down

\* C19: in the end-to-end scenario (target at (0, 0)), a tick with Right
\* held does not decrease offset_position.x and keeps it at most 50; a tick
\* with no key held multiplies offset_position.x by the decay factor
\* 1 - 1/10, so it does not become negative and decreases (strictly while
\* it is at least 1.0, above the rounding of the fixed-point values).
C19_EndToEndOffsetRisesThenDecays ==
    [][(IsEndToEnd /\ UpdatesCamera /\ TargetAtOrigin(cam_siblings')
          /\ cam.offset_position[1] >= 0 /\ cam.offset_position[2] = 0) =>
        /\ cam.decceleration_factor = Scale - DivRound(Scale, 10)
        /\ OnlyRightHeld(cam.velocity) =>
              /\ cam'.offset_position[1] >= cam.offset_position[1]
              /\ cam'.offset_position[1] <= 50 * Scale
        /\ NothingHeld(cam.velocity) =>
              /\ cam'.offset_position[1] * Scale
                    <= cam.offset_position[1] * cam.decceleration_factor + Scale \div 2
              /\ cam'.offset_position[1] * Scale
                    >= cam.offset_position[1] * cam.decceleration_factor - Scale \div 2
              /\ cam'.offset_position[1] >= 0
              /\ cam'.offset_position[1] <= cam.offset_position[1]
              /\ cam.offset_position[1] >= Scale =>
                    cam'.offset_position[1] < cam.offset_position[1]
    ]_vars

\* Right was held until the offset stood at 50, then released: the first
\* tick afterwards has brought it down to 45.
C19_Witness ==
    /\ IsEndToEnd
    /\ cam_op = [op |-> "update", ok |-> TRUE]
    /\ NothingHeld(cam.velocity)
    /\ cam.offset_position = <<45 * Scale, 0>>

C21_StopMovementZeroesVelocity ==
    /\ [](IsSome(vc_stopped) =>
            /\ get_velocity(vc) = <<0, 0>>
            /\ vc_op.op = "get_velocity" => vc_op.result = <<0, 0>>)
    /\ [][/\ vc_op'.op = "set_direction" =>
               /\ Flag(vc', vc_op'.direction) = vc_op'.value
               /\ \A d \in Directions \ {vc_op'.direction} : Flag(vc', d) = Flag(vc, d)
               /\ vc'.speed = vc.speed
          /\ vc_op'.op = "get_velocity" => vc' = vc
         ]_vars

\* A moving controller was stopped, a direction was cleared afterwards and
\* get_velocity has returned zero.
C21_Witness ==
    /\ vc_stopped = Some(TRUE)
    /\ vc_op.op = "get_velocity"
    /\ vc_op.result = <<0, 0>>

\* ------------------------------------------------ boxes on their own
\* C22: clamp_box_inside returns None exactly when the box contains the
\* other box: a contained box gets no correction, and a correction is
\* returned only for a box that is not contained.
C22_ContainedBoxIsNotClamped ==
    box_op.op = "clamp_box_inside" =>
        (contains_box(box_self, box_other) <=> box_op.correction = None)

\* clamp_box_inside was called with a different, smaller box that lies
\* inside the box.
C22_Witness ==
    /\ box_op.op = "clamp_box_inside"
    /\ box_other # box_self
    /\ box_other.size[1] > 0
    /\ contains_box(box_self, box_other)
    /\ box_op.correction = None

\* The other box is narrower and lower than the box.
StrictlySmaller(self, other) ==
    other.size[1] < self.size[1] /\ other.size[2] < self.size[2]

\* On axis k the box with this anchor and size lies within the box (in
\* exact arithmetic).
LiesWithin(self, anchor, size, k) ==
    /\ self.anchor[k] - self.size[k] \div 2 <= anchor[k] - size[k] \div 2
    /\ anchor[k] + size[k] \div 2 <= self.anchor[k] + self.size[k] \div 2

\* C23: when the other box is strictly narrower and lower than the box and
\* clamp_box_inside has returned Some(p), the other box moved to p is
\* contained in the box, and on every axis on which it lay within the box
\* before, p has its former coordinate.
C23_ClampedBoxIsContained ==
    (box_op.op = "moved" /\ StrictlySmaller(box_self, box_other)) =>
        /\ contains_box(box_self, box_other)
        /\ \A k \in {1, 2} :
              LiesWithin(box_self, box_op.point, box_other.size, k) =>
                  box_other.anchor[k] = box_op.point[k]

\* C24: when the other box has been moved to the correction that
\* clamp_box_inside returned, clamping it again returns None.
C24_ClampIsIdempotent ==
    [][(box_op.op = "moved" /\ box_op'.op = "clamp_box_inside") =>
          box_op'.correction = None]_vars

\* The point lies on a side or on a corner of the box (in exact arithmetic).
OnBorder(self, point) ==
    /\ \A k \in {1, 2} : Abs(point[k] - self.anchor[k]) <= self.size[k] \div 2
    /\ \E k \in {1, 2} : Abs(point[k] - self.anchor[k]) = self.size[k] \div 2

\* C25: contains_point holds of every point on a side or a corner of the
\* box, and contains_box holds of the box and itself.
C25_SidesInclusiveAndReflexive ==
    /\ (box_op.op = "contains_point" /\ OnBorder(box_self, box_op.point)) =>
          box_op.holds
    /\ (box_op.op = "contains_box" /\ box_other = box_self) => box_op.holds

\* The interiors of the two boxes overlap (in exact arithmetic).
InteriorsOverlap(self, other) ==
    \A k \in {1, 2} :
        /\ self.anchor[k] - self.size[k] \div 2 < other.anchor[k] + other.size[k] \div 2
        /\ self.anchor[k] + self.size[k] \div 2 > other.anchor[k] - other.size[k] \div 2

\* C26: intersects holds exactly of boxes whose interiors overlap (boxes
\* that only touch along a side or at a corner do not intersect), and it
\* gives the same answer with the two boxes exchanged.
C26_IntersectsIsStrictAndSymmetric ==
    box_op.op = "intersects" =>
        /\ box_op.holds <=> InteriorsOverlap(box_self, box_other)
        /\ box_op.holds <=> intersects(box_other, box_self)

\* ------------------------------------------------------ the timer thread
\* This step is taken by the timer thread: no event is dispatched, and an
\* event is posted or a thread ends.
TimerThreadStep ==
    /\ handled' = NoEvent
    /\ queue' # queue \/ timer_threads' # timer_threads

\* The scenes, entities, cameras and renderer state.
scene_vars == <<pending_scenes, active_scenes, suspended_scenes, window_ids,
                cameras, surfaces, render_scenes, uniform_buffers>>

\* C27: a step of the timer thread appends one Timer event to the queue or
\* ends the thread, and leaves the scenes, entities, cameras and renderer
\* state as they are; that state changes only in steps of the event loop,
\* which leave the timer thread alone; once the event loop is closed no
\* event is posted any more and the thread ends.
C27_TimerThreadOnlyPostsTimer ==
    [][/\ TimerThreadStep =>
            /\ UNCHANGED scene_vars
            /\ \/ queue' = Append(queue, Timer) /\ timer_threads' = timer_threads
               \/ queue' = queue /\ timer_threads' = timer_threads - 1
       /\ scene_vars' # scene_vars => ~TimerThreadStep
       /\ exited =>
            /\ queue' = queue
            /\ timer_threads' = timer_threads - 1
       /\ timer_threads' < timer_threads => exited
      ]_vars

\* The thread has posted Timer events while scenes were held, the event
\* loop has closed with a Timer still queued, and the thread has ended.
C27_Witness ==
    /\ exited
    /\ timer_threads = 0
    /\ QueuedTimers(queue) > 0
    /\ active_scenes # <<>>

\* ------------------------------------------------- one event at a time
IsSend(call) == call.op = "send_event"

\* The events a handler has sent, in the order in which it sent them.
SendsOf(t) ==
    [k \in 1..Len(SelectSeq(t, IsSend)) |-> SelectSeq(t, IsSend)[k].arg]

\* The calls into host code that handle an event on behalf of an entity or
\* of the State.
HostHandlerCalls(t) ==
    {k \in 1..Len(t) : t[k].op \in {"handle_event", "state_handle_event"}}

\* The events behind the first n of the queue, the Timer events left out.
SentBehind(q, n) == SelectSeq(SubSeq(q, n + 1, Len(q)), LAMBDA e : ~IsTimer(e))

\* C28: every step of the event loop handles the oldest queued event alone
\* and to completion: the events its handler has sent (update results,
\* State::handle_event results, window and render-scene requests) are
\* behind every event that was waiting, in the order in which they were
\* sent (with at most one Timer of the timer thread among them), and none
\* of them is handled inside the step (a tick calls no event handler of the
\* host, any other step at most one and no update); a Timer of the timer
\* thread is put behind every waiting event as well.
C28_EventsHandledOneAtATime ==
    [][/\ handled' # NoEvent =>
            /\ queue # <<>>
            /\ handled' = Head(queue)
            /\ panicked' = "" =>
                  /\ SubSeq(queue', 1, Len(queue) - 1) = Tail(queue)
                  /\ SentBehind(queue', Len(queue) - 1) = SendsOf(trace')
                  /\ Len(queue') <= Len(queue) - 1 + Len(SendsOf(trace')) + 1
            /\ handled'.type = "Timer" => HostHandlerCalls(trace') = {}
            /\ handled'.type # "Timer" =>
                  /\ Cardinality(HostHandlerCalls(trace')) <= 1
                  /\ \A k \in 1..Len(trace') : trace'[k].op # "update"
       /\ (handled' = NoEvent /\ queue' # queue) => queue' = Append(queue, Timer)
      ]_vars

\* A tick has sent the event an update returned and a RenderUpdate while
\* other events were waiting, and the timer thread has posted in between:
\* the queue ends with the first, the Timer and the second.
C28_Witness ==
    /\ handled = Timer
    /\ Len(SendsOf(trace)) = 2
    /\ Len(queue) > 3
    /\ SubSeq(queue, Len(queue) - 2, Len(queue))
          = <<SendsOf(trace)[1], Timer, SendsOf(trace)[2]>>
    /\ \E k \in 1..Len(trace) : trace[k].op = "update"

\* ------------------------------------------------------- the Timer tick
\* The event is one that an entity update has returned.
IsHostSend(call) == call.op = "send_event" /\ call.arg.type = "External"

\* The steps of a handler without the events the host returned and without
\* the renderer's buffer writes: <<op, scene, entity, event sent>>.
StepsOf(t) ==
    LET kept == SelectSeq(t, LAMBDA c : ~IsHostSend(c) /\ c.op # "update_uniform_buffer")
    IN  [k \in 1..Len(kept) |->
            <<kept[k].op, kept[k].scene, kept[k].entity,
              IF kept[k].op = "send_event" THEN kept[k].arg ELSE <<>> >>]

\* update and render of the entities from index k on, one entity after the
\* other.
RECURSIVE EntitySteps(_, _)
EntitySteps(scene, k) ==
    IF k > Len(scene.entities) THEN <<>>
    ELSE << <<"update", scene.id, scene.entities[k].id, <<>> >>,
            <<"render", scene.id, scene.entities[k].id, <<>> >> >>
         \o EntitySteps(scene, k + 1)

\* The steps of one scene in a tick: the entities in list order, then the
\* camera of the scene if it has one, then the RenderUpdate.
SceneSteps(scene, cams) ==
    EntitySteps(scene, 1)
    \o (IF FindCamera(cams, scene.name) # 0
        THEN << <<"camera_update", scene.id, 0, <<>> >> >> ELSE <<>>)
    \o << <<"send_event", 0, 0, RenderUpdate(scene.render_scene)>> >>

RECURSIVE TickSteps(_, _, _)
TickSteps(scenes, cams, i) ==
    IF i > Len(scenes) THEN <<>>
    ELSE SceneSteps(scenes[i], cams) \o TickSteps(scenes, cams, i + 1)

\* Position of the entity with the id in the list.
PositionOf(entities, id) == CHOOSE k \in 1..Len(entities) : entities[k].id = id

\* `new` holds the entities of `old` in ascending order of z, those of
\* equal z in the order they had in `old`.
StablySorted(old, new) ==
    /\ Len(new) = Len(old)
    /\ Range(new) = Range(old)
    /\ \A a, b \in 1..Len(new) : a < b => new[a].z <= new[b].z
    /\ \A a, b \in 1..Len(old) :
          (a < b /\ old[a].z = old[b].z) =>
              PositionOf(new, old[a].id) < PositionOf(new, old[b].id)

\* C29: in a tick every scene's entities are stably sorted by ascending z;
\* then, scene by scene, each entity in that order is updated and rendered
\* before the next one is updated, after the last entity the scene's camera
\* is advanced, and the scene's RenderUpdate is sent last.
C29_TickOrderWithinScene ==
    [][Dispatches("Timer") =>
          /\ Len(active_scenes') = Len(active_scenes)
          /\ Len(suspended_scenes') = Len(suspended_scenes)
          /\ \A i \in 1..Len(active_scenes) :
                StablySorted(active_scenes[i].entities, active_scenes'[i].entities)
          /\ \A i \in 1..Len(suspended_scenes) :
                StablySorted(suspended_scenes[i].entities,
                             suspended_scenes'[i].entities)
          /\ StepsOf(trace')
                = TickSteps(active_scenes' \o suspended_scenes', cameras, 1)
      ]_vars

\* Scene 1, which has a camera, was ticked after the entity 14 (z 0) was
\* added behind entity 11 (z 1): the updates ran in the order 12, 13, 14, 11
\* and each was followed by its render, then came the camera and the
\* RenderUpdate.
C29_Witness ==
    /\ handled = Timer
    /\ Len(active_scenes) = 1
    /\ StepsOf(trace)
          = << <<"update", 1, 12, <<>> >>, <<"render", 1, 12, <<>> >>,
               <<"update", 1, 13, <<>> >>, <<"render", 1, 13, <<>> >>,
               <<"update", 1, 14, <<>> >>, <<"render", 1, 14, <<>> >>,
               <<"update", 1, 11, <<>> >>, <<"render", 1, 11, <<>> >>,
               <<"camera_update", 1, 0, <<>> >>,
               <<"send_event", 0, 0, RenderUpdate("r1")>> >>

\* The RenderUpdate events among the events, in order.
RenderUpdatesOf(events) == SelectSeq(events, LAMBDA e : e.type = "RenderUpdate")

\* One RenderUpdate for each of the scenes, in order, with the scene's
\* render_scene.
RenderUpdatesFor(scenes) ==
    [k \in 1..Len(scenes) |-> RenderUpdate(scenes[k].render_scene)]

EveryMatchedRule(g, event) ==
    Finish(
      ApplyRenderScene(
        ApplyDeleteEntity(
          ApplyUpdateUniform(
            ApplyDeleteScene(
              ApplyActivate(
                ApplySuspend(
                  ApplySetVisibility(
                    Apply(Apply(g, IsSome(event.new_scenes),
                                RuleNewScenes(g, ScenesOf(Unwrap(event.new_scenes)))),
                          IsSome(event.add_entities),
                          RuleAddEntities(
                            Apply(g, IsSome(event.new_scenes),
                                  RuleNewScenes(g, ScenesOf(Unwrap(event.new_scenes)))),
                            Unwrap(event.add_entities)[1],
                            Unwrap(event.add_entities)[2])),
                    event),
                  event),
                event),
              event),
            event),
          event),
        event),
      event)

\* The state after this step is the one the handler result g describes.
LeavesAs(g) ==
    /\ g.panic = ""
    /\ g.emit = <<>>
    /\ pending_scenes' = g.pending_scenes
    /\ active_scenes' = g.active_scenes
    /\ suspended_scenes' = g.suspended_scenes
    /\ cameras' = g.cameras
    /\ render_scenes' = g.render_scenes
    /\ Sent = g.out
    /\ calls' = g.calls

\* C31: when an external event that answers several routing queries is
\* handled, the rule of every query it answers has taken effect, in the
\* order of the list of rules (the end-game rule last of them).
C31_EveryMatchedRuleApplied ==
    [][Dispatches("External") =>
        \E emit \in HostEmits : LeavesAs(EveryMatchedRule(Cur(emit), Head(queue).event))
    ]_vars

\* ------------------------------------------------------------------ C32
\* The messages of the panics of a consuming accessor that was called on an
\* event whose query is false.
ProtocolMisuse ==
    {"Bad implementation of ExternalEvent::is_request_new_scenes()",
     "Bad implementation of ExternalEvent::is_add_entities()",
     "unreachable",
     "Test if it is a render update, before trying to consume the event as one"}

\* C32: the orchestrator and the application layer consume the payload of
\* an event only after the matching query of that event returned true, so
\* with a host type whose queries and accessors agree the process never
\* ends in the panic of a consuming accessor.
C32_ConsumedOnlyAfterQuery == panicked \notin ProtocolMisuse

\* A new-scenes request has been handled without a panic: its scenes were
\* consumed after the query, scene 3 is pending.
C32_Witness ==
    /\ handled.type = "External"
    /\ handled.event = NewScenesAndEndGame
    /\ 3 \in Ids(pending_scenes)
    /\ panicked = ""

\* ------------------------------------------------------------------ C33
\* Call k of the tick is a camera update that did not find its target or
\* its bound entity.
CameraUpdateFailed(k) ==
    calls'[k].op = "camera_update" /\ calls'[k].arg = FALSE

\* The renderer is handed the camera uniform right after call k.
UniformPushedAfter(k) ==
    k < Len(calls') /\ calls'[k + 1].op = "update_uniform_buffer"

\* C33: on a tick on which the camera of a scene does not find its target
\* or bound entity among the entities of the scene, no update of the uniform
\* buffer of that camera reaches the renderer, and the tick goes on: it
\* sends the RenderUpdate of every active and suspended scene.
C33_FailedCameraUpdateSkipped ==
    [][Dispatches("Timer") =>
        /\ \A k \in 1..Len(calls') : CameraUpdateFailed(k) => ~UniformPushedAfter(k)
        /\ Len(SelectSeq(Sent, LAMBDA e : e.type = "RenderUpdate"))
             = Len(active_scenes) + Len(suspended_scenes)
    ]_vars

\* ------------------------------------------------------------------ C34
\* The camera as Camera::update has it when it asks for the clamp: the
\* offset moved, the position that of the target.
BeforeClamp(self, entities) ==
    [self EXCEPT !.offset_position = UpdateOffset(self),
                 !.position = EntityPosition(entities[FindEntity(entities, self.target_entity)])]

\* The bounding box of the bound entity of the camera.
BoundBox(self, entities) ==
    EntityBoundingBox(entities[FindEntity(entities, Unwrap(self.bound_entity))])

\* The correction clamp_box_inside returns to this update.
CorrectionOf(self, entities) ==
    clamp_box_inside(BoundBox(self, entities),
                     CameraBoundingBox(BeforeClamp(self, entities)))

\* The update of this step finds the target and the bound entity, and the
\* view is narrower and lower than the box of the bound entity.
UpdatesWithinBound ==
    /\ UpdatesCamera
    /\ cam_op'.ok
    /\ IsSome(cam.bound_entity)
    /\ StrictlySmaller(BoundBox(cam, cam_siblings'),
                       BoundingBox(<<0, 0>>, cam.view_size))

\* C34: after a camera update that found the target and the bound entity,
\* with a view strictly smaller than the box of the bound entity, the box
\* of size view_size centred at position + offset_position lies within the
\* box of the bound entity; the clamp has left offset_position as the update
\* computed it; position + offset_position is the correction when there is
\* one, and position is the position of the target when there is none.
C34_CameraViewStaysInBound ==
    [][UpdatesWithinBound =>
        /\ \A k \in {1, 2} :
              LiesWithin(BoundBox(cam, cam_siblings'),
                         <<cam'.position[1] + cam'.offset_position[1],
                           cam'.position[2] + cam'.offset_position[2]>>,
                         cam'.view_size, k)
        /\ cam'.offset_position = UpdateOffset(cam)
        /\ IF CorrectionOf(cam, cam_siblings') = None
           THEN cam'.position = BeforeClamp(cam, cam_siblings').position
           ELSE \A k \in {1, 2} :
                   cam'.position[k] + cam'.offset_position[k]
                     = Unwrap(CorrectionOf(cam, cam_siblings'))[k]
    ]_vars

\* ------------------------------------------------------------------ C35
\* The boxes that have the anchor coordinate and the extent of the box on
\* axis k.
SameOnAxis(box, k) ==
    {b \in Boxes : b.anchor[k] = box.anchor[k] /\ b.size[k] = box.size[k]}

\* C35: when clamp_box_inside returns Some(p), p has the coordinate of the
\* anchor of the box on every axis on which the other box is not smaller
\* than the box, and the coordinate of p on an axis is the same for all
\* boxes that agree with the two on that axis, whatever their other axis.
C35_OversizedAxisSnapsToAnchor ==
    (box_op.op = "clamp_box_inside" /\ IsSome(box_op.correction)) =>
        \A k \in {1, 2} :
            /\ box_other.size[k] >= box_self.size[k] =>
                  Unwrap(box_op.correction)[k] = box_self.anchor[k]
            /\ \A a \in SameOnAxis(box_self, k), b \in SameOnAxis(box_other, k) :
                  IsSome(clamp_box_inside(a, b)) =>
                      Unwrap(clamp_box_inside(a, b))[k] = Unwrap(box_op.correction)[k]

\* A box as wide as the box and lower than it, standing beside and above
\* it, was clamped: it is moved onto the anchor of the box on the x axis
\* and moved on the y axis by the rule of that axis.
C35_Witness ==
    /\ box_op.op = "clamp_box_inside"
    /\ IsSome(box_op.correction)
    /\ box_other.size[1] >= box_self.size[1]
    /\ box_other.size[2] < box_self.size[2]
    /\ box_other.anchor[1] # box_self.anchor[1]
    /\ Unwrap(box_op.correction)[1] = box_self.anchor[1]
    /\ Unwrap(box_op.correction)[2] # box_other.anchor[2]
    /\ Unwrap(box_op.correction)[2] # box_self.anchor[2]

\* ------------------------------------------------------------------ C36
\* The render-scene requests under way for the render scene: the queued
\* RequestNewRenderScene events and the queued NewRenderScene events.
RequestsUnderWay(render_scene) ==
    Len(SelectSeq(queue, LAMBDA e :
            /\ e.type \in {"RequestNewRenderScene", "NewRenderScene"}
            /\ e.render_scene = render_scene))

\* The pending scenes with the render scene.
PendingWith(render_scene) ==
    Len(SelectSeq(pending_scenes, LAMBDA s : s.render_scene = render_scene))

\* C36: no render scene has more requests under way than there are pending
\* scenes waiting for it (one request per pending scene), so every
\* NewRenderScene finds its pending scene and the process never ends in
\* 'Scene Vanished before getting created fully'.
C36_OneRenderSceneRequestPerPendingScene ==
    /\ panicked # "Scene Vanished before getting created fully"
    /\ \A i \in 1..Len(queue) :
          queue[i].type \in {"RequestNewRenderScene", "NewRenderScene"} =>
              RequestsUnderWay(queue[i].render_scene)
                <= PendingWith(queue[i].render_scene)

\* ------------------------------------------------------------------ C37
\* The entries of the cameras list for the scene name.
CamerasOf(name) == {i \in 1..Len(cameras) : cameras[i].scene = name}

\* The render scene of the scene is described with a camera.
DescribedWithCamera(scene) == IsSome(get_render_scene(scene.render_scene).camera)

\* C37: every active or suspended scene whose render scene is described
\* with a camera has exactly one entry in the cameras list, and every entry
\* of the cameras list names a pending, active or suspended scene.
C37_OneCameraPerScene ==
    /\ \A i \in 1..Len(HeldScenes) :
          DescribedWithCamera(HeldScenes[i]) =>
              Cardinality(CamerasOf(HeldScenes[i].name)) = 1
    /\ \A i \in 1..Len(cameras) : cameras[i].scene \in Names(AllScenes)

\* ------------------------------------------------------------------ C38
\* The camera is at rest: no offset, no direction held.
AtRest(camera) ==
    camera.offset_position = <<0, 0>> /\ NothingHeld(camera.velocity)

\* C38: while a scene whose render scene is described with a camera is in
\* suspended_scenes, every camera registered for it has offset_position
\* zero and no direction flag set, whatever Timer ticks and keyboard
\* events are handled meanwhile.
C38_SuspendedCameraStaysAtRest ==
    \A i \in 1..Len(suspended_scenes) :
        DescribedWithCamera(suspended_scenes[i]) =>
            \A c \in CamerasOf(suspended_scenes[i].name) : AtRest(cameras[c].camera)

\* ------------------------------------------------------------------ C39
\* How often the window name has been requested: the queued
\* RequestNewWindow and NewWindow events for it and the ids recorded for it.
TimesRequested(name) ==
    Len(SelectSeq(queue, LAMBDA e :
            e.type \in {"RequestNewWindow", "NewWindow"} /\ e.name = name))
    + Len(SelectSeq(window_ids, LAMBDA w : w[1] = name))

\* C39: every window name is requested from the platform at most once and
\* window_ids holds at most one id for it.
C39_WindowRequestedOnce ==
    \A name \in Range(ressources.windows) : TimesRequested(name) <= 1

\* ------------------------------------------------------------------ C40
\* C40: every entry of uniform_buffers names a render scene that is in
\* render_scenes, and the process never ends in 'RenderScene vanished'.
C40_UniformBuffersNameLiveRenderScenes ==
    /\ panicked # "RenderScene vanished"
    /\ \A i \in 1..Len(uniform_buffers) :
          \E k \in 1..Len(render_scenes) :
              render_scenes[k][2] = uniform_buffers[i][1]
====
